---- MODULE Spec2Model ----
(***************************************************************************)
(* Phonetic visualizer: the keyed state store (js/state.js), the           *)
(* visualizer registry and instances (js/visualizer-base.js), the          *)
(* orchestrator (js/main.js), the shared utilities (js/utils.js) and the   *)
(* spiral, tree and waveform plugins, as one state machine driven by the   *)
(* browser's event loop: user events, animation-frame callbacks, timers    *)
(* and sound-buffer completion callbacks.                                  *)
(***************************************************************************)
EXTENDS Integers, Sequences, FiniteSets, TLC

(***************************************************************************)
(* Bounds of the exploration.                                              *)
(***************************************************************************)
\* number of renderFunction invocations explored
MaxRuns == 2
\* number of requestAnimationFrame handles handed out
MaxFrameId == 3
\* number of clock ticks of Date.now()
MaxTicks == 1

(***************************************************************************)
(* JavaScript values.  Every value is a record [k, n, s]: k is the kind,   *)
(* n a number (the number itself, a boolean as 0/1, the index of a word,   *)
(* the run that built an object), s the members of an array of audio-node  *)
(* ids.                                                                    *)
(***************************************************************************)
Undefined == [k |-> "undefined", n |-> 0, s |-> {}]
Null == [k |-> "null", n |-> 0, s |-> {}]
Num(i) == [k |-> "num", n |-> i, s |-> {}]
Bool(b) == [k |-> "bool", n |-> IF b THEN 1 ELSE 0, s |-> {}]
Str(i) == [k |-> "str", n |-> i, s |-> {}]
Obj(r) == [k |-> "obj", n |-> r, s |-> {}]
List(r, nodes) == [k |-> "list", n |-> r, s |-> nodes]

\* JavaScript truthiness, as used by `if (x)` and `!x`
Truthy(v) ==
  CASE v.k = "undefined" -> FALSE
    [] v.k = "null" -> FALSE
    [] v.k = "num" -> v.n # 0
    [] v.k = "bool" -> v.n = 1
    [] v.k = "str" -> v.n # 0
    [] OTHER -> TRUE

\* rec.field : undefined when the record has no such field
Get(rec, f) == IF f \in DOMAIN rec THEN rec[f] ELSE Undefined

\* { ...a, ...b }
Spread(a, b) ==
  [f \in (DOMAIN a) \cup (DOMAIN b) |-> IF f \in DOMAIN b THEN b[f] ELSE a[f]]

\* obj[key] = value on an object used as a map
Put(map, key, value) ==
  [x \in (DOMAIN map) \cup {key} |-> IF x = key THEN value ELSE map[x]]

\* the object with no own property
EmptyMap == [x \in {} |-> Null]

(***************************************************************************)
(* Numbers.  A JavaScript number is a fraction in lowest terms, NaN or an  *)
(* infinity; the arithmetic is exact, where the program's is exact up to   *)
(* the rounding of doubles.                                                *)
(***************************************************************************)
RECURSIVE GCD(_, _)
GCD(a, b) == IF b = 0 THEN a ELSE GCD(b, a % b)

Abs(i) == IF i < 0 THEN -i ELSE i

Fin(n, d) ==
  LET g == GCD(Abs(n), Abs(d))
      sgn == IF d < 0 THEN -1 ELSE 1
  IN [t |-> "fin", n |-> (sgn * n) \div g, d |-> (sgn * d) \div g, s |-> <<>>]
NaN == [t |-> "nan", n |-> 0, d |-> 1, s |-> <<>>]
Infinity(sign) == [t |-> "inf", n |-> sign, d |-> 1, s |-> <<>>]
Whole(i) == Fin(i, 1)

isNaN(v) == v.t = "nan"

\* common factors are cancelled before the products are formed
Plus(a, b) ==
  LET g == GCD(a.d, b.d)
  IN Fin(a.n * (b.d \div g) + b.n * (a.d \div g), (a.d \div g) * b.d)
Minus(a, b) == Plus(a, Fin(-b.n, b.d))
Times(a, b) ==
  LET g1 == GCD(Abs(a.n), b.d)
      g2 == GCD(Abs(b.n), a.d)
  IN Fin((a.n \div g1) * (b.n \div g2), (a.d \div g2) * (b.d \div g1))
Over(a, b) == Times(a, Fin(b.d, b.n))
Less(a, b) ==
  LET g == GCD(a.d, b.d)
  IN a.n * (b.d \div g) < b.n * (a.d \div g)
MathAbs(a) == Fin(Abs(a.n), a.d)
MathMax(a, b) == IF Less(a, b) THEN b ELSE a
MathMin(a, b) == IF Less(b, a) THEN b ELSE a

(***************************************************************************)
(* Strings of canvas.dataset.  A string is a sequence of tokens: a         *)
(* character, or the decimal numeral of a number.                          *)
(***************************************************************************)
Ch(c) == [num |-> FALSE, c |-> c, n |-> 0, d |-> 1]
Numeral(v) == [num |-> TRUE, c |-> "", n |-> v.n, d |-> v.d]
Chars(str) == [i \in 1..Len(str) |-> Ch(str[i])]
JStr(tokens) == [t |-> "str", n |-> 0, d |-> 1, s |-> tokens]

\* String(value), as the assignment to a dataset field applies it
ToText(v) ==
  CASE v.t = "str" -> v.s
    [] v.t = "fin" -> <<Numeral(v)>>
    [] v.t = "nan" -> Chars(<<"N", "a", "N">>)
    [] v.t = "inf" ->
         IF v.n < 0
         THEN Chars(<<"-", "I", "n", "f", "i", "n", "i", "t", "y">>)
         ELSE Chars(<<"I", "n", "f", "i", "n", "i", "t", "y">>)

StartsWith(text, prefix) ==
  Len(text) >= Len(prefix) /\ SubSeq(text, 1, Len(prefix)) = prefix

\* parseFloat(text): the number of the longest numeric prefix, or NaN
parseFloat(text) ==
  IF text = <<>> THEN NaN
  ELSE IF Head(text).num THEN Fin(Head(text).n, Head(text).d)
  ELSE IF StartsWith(text, ToText(Infinity(1))) THEN Infinity(1)
  ELSE IF StartsWith(text, ToText(Infinity(-1))) THEN Infinity(-1)
  ELSE NaN

(***************************************************************************)
(* Words.  A word is a sequence of one-character strings; Words[1] is the  *)
(* empty word, and a record's word field holds Str(index - 1), so that the *)
(* empty string is the falsy Str(0).                                       *)
(***************************************************************************)
Words == << <<>>, <<"1">>, <<"2", "3">> >>
WordIds == 1..Len(Words)
EmptyWord == CHOOSE i \in WordIds : Words[i] = <<>>

phoneticMap ==
  [a |-> <<"a","y">>, b |-> <<"b","e","e">>, c |-> <<"s","e","e">>,
   d |-> <<"d","e","e">>, e |-> <<"e","e">>, f |-> <<"e","f">>,
   g |-> <<"j","e","e">>, h |-> <<"a","y","c","h">>, i |-> <<"e","y","e">>,
   j |-> <<"j","a","y">>, k |-> <<"k","a","y">>, l |-> <<"e","l">>,
   m |-> <<"e","m">>, n |-> <<"e","n">>, o |-> <<"o","h">>,
   p |-> <<"p","e","e">>, q |-> <<"c","u","e">>, r |-> <<"a","r">>,
   s |-> <<"e","s","s">>, t |-> <<"t","e","e">>, u |-> <<"y","o","u">>,
   v |-> <<"v","e","e">>, w |-> <<"d","o","u","b","l","e","y","o","u">>,
   x |-> <<"e","x">>, y |-> <<"w","h","y">>, z |-> <<"z","e","e">>]

UpperCase == [A |-> "a", B |-> "b", C |-> "c", D |-> "d", E |-> "e", F |-> "f",
   G |-> "g", H |-> "h", I |-> "i", J |-> "j", K |-> "k", L |-> "l", M |-> "m",
   N |-> "n", O |-> "o", P |-> "p", Q |-> "q", R |-> "r", S |-> "s", T |-> "t",
   U |-> "u", V |-> "v", W |-> "w", X |-> "x", Y |-> "y", Z |-> "z"]

toLowerCase(c) == IF c \in DOMAIN UpperCase THEN UpperCase[c] ELSE c

\* looks the character up as it is, without toLowerCase
RECURSIVE spellOutArrayCaseSensitive(_)
spellOutArrayCaseSensitive(chars) ==
  IF chars = <<>> THEN <<>>
  ELSE LET c == Head(chars)
           mapped == IF c \in DOMAIN phoneticMap THEN phoneticMap[c] ELSE <<c>>
       IN mapped \o spellOutArrayCaseSensitive(Tail(chars))

RECURSIVE spellOutArray(_)
spellOutArray(chars) ==
  IF chars = <<>> THEN <<>>
  ELSE LET c == Head(chars)
           lc == toLowerCase(c)
           mapped == IF lc \in DOMAIN phoneticMap THEN phoneticMap[lc] ELSE <<c>>
       IN mapped \o spellOutArray(Tail(chars))

RECURSIVE LayersFrom(_, _, _)
LayersFrom(layers, i, maxLayers) ==
  IF i > maxLayers THEN layers
  ELSE LET nextLayer == spellOutArray(layers[i])
       IN IF Len(nextLayer) = 0 THEN layers
          ELSE LayersFrom(Append(layers, nextLayer), i + 1, maxLayers)

\* layers[0] = word.split(''); for (i = 1; i <= maxLayers; i++) ...
generatePhoneticLayers(word, maxLayers) == LayersFrom(<<word>>, 1, maxLayers)

getFinalLayerText(layers) ==
  IF Len(layers) = 0 THEN <<>> ELSE layers[Len(layers)]

RECURSIVE TotalChars(_)
TotalChars(layers) ==
  IF layers = <<>> THEN 0 ELSE Len(Head(layers)) + TotalChars(Tail(layers))

\* animationConfig.layerDepth || 3 of the spiral, tree and waveform descriptors
layerDepth == 3

LayersOf(w) == generatePhoneticLayers(Words[w], layerDepth)

(***************************************************************************)
(* State.  The variables are the module-level state of the four scripts    *)
(* and the browser state they act on.                                      *)
(***************************************************************************)
VARIABLES
  visualizationState,   \* state.js: key -> record (field -> value)
  visualizerTemplates,  \* state.js: key -> registered template
  visualizers,          \* visualizer-base.js: key -> instance
  createdCanvases,      \* visualizer-base.js: ids of canvases created on demand
  dom,                  \* the document: sequence of elements, identity = index
  pendingFrames,        \* requestAnimationFrame callbacks not yet run
  nextFrameId,          \* the next handle requestAnimationFrame returns
  pendingBuffers,       \* Promise.all(bufferPromises) callbacks not yet run
  runCount,             \* number of renderFunction invocations so far
  audioGraph,           \* audio nodes currently connected
  localAudioContext,    \* waveform.js: module-level audio context
  canvasOnclick,        \* waveform canvas.onclick installed
  previouslySelectedVisualizerName, \* main.js
  selectValue,          \* visualizationSelect.value
  wordInput,            \* wordInput: [value, disabled]
  typewriterTimeoutId,  \* utils.js: handle of the caption timer, or Null
  typewriter,           \* caption: [content, timers, nextTimer]
  now,                  \* Date.now()
  lastReset,            \* history: the last resetState call
  atCallback,           \* history: the record when render called renderFunction
  dataset,              \* canvas id -> field -> [value, text] of canvas.dataset
  zoomPan,              \* main.js: the variables of a canvas's zoom/pan closure
  zoomListeners,        \* main.js: the closures setupCanvasZoomPan has installed
  log,                  \* history: what the last step did
  handler               \* history: the calls the last event handler made, and
                        \* whether an exception left it

vars == <<visualizationState, visualizerTemplates, visualizers, createdCanvases,
          dom, pendingFrames, nextFrameId, pendingBuffers, runCount, audioGraph,
          localAudioContext, canvasOnclick, previouslySelectedVisualizerName,
          selectValue, wordInput, typewriterTimeoutId, typewriter, now,
          lastReset, atCallback, dataset, zoomPan, zoomListeners, log, handler>>

\* The current state as one record, so that a handler is the composition of
\* the functions it calls.
Cur ==
  [vs |-> visualizationState, vt |-> visualizerTemplates, reg |-> visualizers,
   created |-> createdCanvases, dom |-> dom, frames |-> pendingFrames,
   nextId |-> nextFrameId, buffers |-> pendingBuffers, run |-> runCount,
   graph |-> audioGraph, lac |-> localAudioContext, onclick |-> canvasOnclick,
   prev |-> previouslySelectedVisualizerName, sel |-> selectValue,
   input |-> wordInput, twId |-> typewriterTimeoutId, tw |-> typewriter,
   now |-> now, lastReset |-> lastReset, atCallback |-> atCallback,
   ds |-> dataset, zoom |-> zoomPan, zl |-> zoomListeners, log |-> log,
   h |-> handler]

Observed(S) ==
  /\ visualizationState' = S.vs
  /\ visualizerTemplates' = S.vt
  /\ visualizers' = S.reg
  /\ createdCanvases' = S.created
  /\ dom' = S.dom
  /\ pendingFrames' = S.frames
  /\ nextFrameId' = S.nextId
  /\ pendingBuffers' = S.buffers
  /\ runCount' = S.run
  /\ audioGraph' = S.graph
  /\ localAudioContext' = S.lac
  /\ canvasOnclick' = S.onclick
  /\ previouslySelectedVisualizerName' = S.prev
  /\ selectValue' = S.sel
  /\ wordInput' = S.input
  /\ typewriterTimeoutId' = S.twId
  /\ typewriter' = S.tw
  /\ now' = S.now
  /\ lastReset' = S.lastReset
  /\ atCallback' = S.atCallback
  /\ dataset' = S.ds
  /\ zoomPan' = S.zoom
  /\ zoomListeners' = S.zl
  /\ log' = S.log
  /\ handler' = S.h

\* no call made, no exception in flight
\* redrawn: the instances triggerRedraw called redraw() on
NoHandler == [calls |-> <<>>, thrown |-> FALSE, redrawn |-> <<>>]

\* the next state of an event whose calls are not observed
Become(S) == Observed([S EXCEPT !.h = NoHandler])

\* the handler calls fn
Invoked(S, fn) == [S EXCEPT !.h.calls = Append(@, fn)]

\* throw: the exception is in flight until a catch
Throw(S) == [S EXCEPT !.h.thrown = TRUE]

\* catch (error) { console.error(...) }
Catch(S) ==
  IF S.h.thrown
  THEN [S EXCEPT !.h.thrown = FALSE, !.h.calls = Append(@, "console.error")]
  ELSE S

(***************************************************************************)
(* js/state.js                                                             *)
(***************************************************************************)
\* the records state.js starts with
InitialVisualizationState ==
  [spiral |-> [points |-> Null, frame |-> Num(0), colors |-> Null,
               animationId |-> Null],
   ripple |-> [layers |-> Null, frame |-> Num(0), colors |-> Null,
               animationId |-> Null, centerX |-> Num(0), centerY |-> Num(0),
               ringSpacing |-> Num(60), currentViz |-> Null],
   fractal |-> [branches |-> Null, frame |-> Num(0), colors |-> Null,
                animationId |-> Null, centerX |-> Num(0), centerY |-> Num(0),
                season |-> [k |-> "str", n |-> -1, s |-> {}]],
   constellation |-> [stars |-> Null, connections |-> Null, frame |-> Num(0),
                      colors |-> Null, animationId |-> Null,
                      centerX |-> Num(0), centerY |-> Num(0),
                      twinkleSpeed |-> [k |-> "num5percent", n |-> 1, s |-> {}]],
   waveform |-> [frequencies |-> Null, waveData |-> Null, frame |-> Num(0),
                 colors |-> Null, animationId |-> Null, audioContext |-> Null,
                 audioNodes |-> Null, isPlaying |-> Bool(FALSE)]]

registerVisualizerState(S, visualizerName, stateTemplate) ==
  LET S1 == [S EXCEPT !.vt = Put(@, visualizerName, stateTemplate)]
  IN IF visualizerName \notin DOMAIN S1.vs
     THEN [S1 EXCEPT !.vs = Put(@, visualizerName, stateTemplate)]
     ELSE S1

\* cancelAnimationFrame(id): a handle that is not pending cancels nothing
cancelAnimationFrame(S, idValue) ==
  [S EXCEPT !.frames = {c \in @ : ~(idValue.k = "num" /\ c.id = idValue.n)}]

\* cancels the callback but leaves the stale handle in the record
cancelAnimationKeepsHandle(S, visualizationType) ==
  IF /\ visualizationType \in DOMAIN S.vs
     /\ Truthy(Get(S.vs[visualizationType], "animationId"))
  THEN cancelAnimationFrame(S, S.vs[visualizationType].animationId)
  ELSE S

cancelAnimation(S, visualizationType) ==
  IF /\ visualizationType \in DOMAIN S.vs
     /\ Truthy(Get(S.vs[visualizationType], "animationId"))
  THEN LET S1 == cancelAnimationFrame(S, S.vs[visualizationType].animationId)
       IN [S1 EXCEPT !.vs[visualizationType] = Put(@, "animationId", Null)]
  ELSE S

\* node.stop(0); node.disconnect() for every listed node
DisconnectAll(S, nodes) == [S EXCEPT !.graph = @ \ nodes]

\* resets the audio context with the rest
WaveformResetFieldsDropContext(audioContext) ==
  [audioContext |-> Null, audioNodes |-> List(0, {}),
   soundBuffers |-> List(0, {}), isPlaying |-> Bool(FALSE),
   dataArray |-> Null, bufferLength |-> Null, analyzer |-> Null]

\* the fields resetState writes after the template for the waveform
WaveformResetFields(audioContext) ==
  [audioContext |-> audioContext, audioNodes |-> List(0, {}),
   soundBuffers |-> List(0, {}), isPlaying |-> Bool(FALSE),
   dataArray |-> Null, bufferLength |-> Null, analyzer |-> Null]

\* the record resetState builds for the waveform when no template is registered
WaveformDefaultState(audioContext) ==
  Spread([frequencies |-> Null, waveData |-> Null, frame |-> Num(0),
          colors |-> Null, animationId |-> Null],
         WaveformResetFields(audioContext))

\* the switch of resetState for keys without a template
LegacyResetKeys == {"spiral", "ripple", "fractal", "constellation"}

\* merges the template into the record instead of replacing the record
resetStateMerging(S, visualizationType) ==
  IF visualizationType \in DOMAIN S.vt /\ visualizationType \in DOMAIN S.vs
  THEN [S EXCEPT !.vs[visualizationType] = Spread(@, S.vt[visualizationType])]
  ELSE S

resetStateBody(S, visualizationType) ==
  IF /\ visualizationType = "waveform"
     /\ "waveform" \in DOMAIN S.vs
     /\ Truthy(Get(S.vs["waveform"], "audioNodes"))
  THEN LET S1 == DisconnectAll(S, S.vs["waveform"].audioNodes.s)
           S2 == cancelAnimation(S1, "waveform")
           audioContext == Get(S2.vs["waveform"], "audioContext")
       IN IF visualizationType \in DOMAIN S2.vt
          THEN [S2 EXCEPT !.vs["waveform"] =
                  Spread(S2.vt[visualizationType], WaveformResetFields(audioContext))]
          ELSE [S2 EXCEPT !.vs["waveform"] = WaveformDefaultState(audioContext)]
  ELSE IF visualizationType \in DOMAIN S.vt
       THEN [S EXCEPT !.vs = Put(@, visualizationType, S.vt[visualizationType])]
       ELSE IF visualizationType \in LegacyResetKeys
            THEN [S EXCEPT !.vs = Put(@, visualizationType,
                                      InitialVisualizationState[visualizationType])]
            ELSE S

\* replaces the record of every key that has a template
resetStateEveryKey(S, visualizationType) ==
  [S EXCEPT !.vs = [k \in DOMAIN S.vs |->
                      IF k \in DOMAIN S.vt THEN S.vt[k] ELSE S.vs[k]]]

\* resetState, leaving in lastReset which key was reset, which fields its
\* record had, its audioContext before, and the record after
resetState(S, visualizationType) ==
  LET S1 == resetStateBody(S, visualizationType)
      before == IF visualizationType \in DOMAIN S.vs
                THEN S.vs[visualizationType] ELSE EmptyMap
  IN [S1 EXCEPT !.lastReset =
        [key |-> visualizationType,
         priorFields |-> DOMAIN before,
         priorContext |-> Get(before, "audioContext"),
         after |-> IF visualizationType \in DOMAIN S1.vs
                   THEN S1.vs[visualizationType] ELSE EmptyMap]]

\* visualizationState[key]: undefined for a key without a record
getState(S, visualizationType) ==
  IF visualizationType \in DOMAIN S.vs THEN S.vs[visualizationType] ELSE Undefined

HasState(S, visualizationType) == visualizationType \in DOMAIN S.vs

\* merges without the guard: creates the record of an unknown key
updateStateCreating(S, visualizationType, newState) ==
  [S EXCEPT !.vs = Put(@, visualizationType,
                       Spread(IF visualizationType \in DOMAIN S.vs
                              THEN S.vs[visualizationType] ELSE EmptyMap,
                              newState))]

\* merges the other way round: the fields of the record win
updateStateOldWins(S, visualizationType, newState) ==
  IF visualizationType \in DOMAIN S.vs
  THEN [S EXCEPT !.vs[visualizationType] = Spread(newState, @)]
  ELSE S

updateState(S, visualizationType, newState) ==
  IF visualizationType \in DOMAIN S.vs
  THEN [S EXCEPT !.vs[visualizationType] = Spread(@, newState)]
  ELSE S

(***************************************************************************)
(* The document.  An element is [id, tag, cls, parent, display]; its       *)
(* identity is its index in dom, parent 0 is the body.                     *)
(***************************************************************************)
\* document.getElementById: the index of the element, 0 for null
getElementById(S, id) ==
  IF \E i \in 1..Len(S.dom) : S.dom[i].id = id
  THEN CHOOSE i \in 1..Len(S.dom) :
         /\ S.dom[i].id = id
         /\ \A j \in 1..Len(S.dom) : S.dom[j].id = id => i <= j
  ELSE 0

\* document.querySelector('.visualization-container'): index, 0 for null
FirstContainer(S) ==
  IF \E i \in 1..Len(S.dom) : S.dom[i].cls = "visualization-container"
  THEN CHOOSE i \in 1..Len(S.dom) :
         /\ S.dom[i].cls = "visualization-container"
         /\ \A j \in 1..Len(S.dom) :
              S.dom[j].cls = "visualization-container" => i <= j
  ELSE 0

SetDisplay(S, i, d) == [S EXCEPT !.dom[i].display = d]

(***************************************************************************)
(* js/utils.js                                                             *)
(***************************************************************************)
\* a clearTimeout that leaves the timer pending
clearTimeoutIgnored(S, idValue) == S

\* clearTimeout(id)
\* tw.cancelled counts the timers that were pending when cleared
clearTimeout(S, idValue) ==
  LET cleared == {t \in S.tw.timers : idValue.k = "num" /\ t.id = idValue.n}
  IN [S EXCEPT !.tw.timers = @ \ cleared,
               !.tw.cancelled = @ + Cardinality(cleared)]

\* the closure typeNextChar of one animateTypewriter call: text, currentChar
typeNextChar(S, text, currentChar) ==
  IF currentChar < Len(text)
  THEN [S EXCEPT !.tw.content = Append(@, text[currentChar + 1]),
                 !.tw.timers = @ \cup {[id |-> S.tw.nextTimer, text |-> text,
                                         currentChar |-> currentChar + 1]},
                 !.tw.nextTimer = @ + 1,
                 !.twId = Num(S.tw.nextTimer)]
  ELSE [S EXCEPT !.twId = Null]

\* starts a run without cancelling the previous run's timer
animateTypewriterNoCancel(S, text) ==
  LET S2 == [S EXCEPT !.tw.content = <<>>, !.tw.text = text]
  IN IF Len(text) = 0 THEN S2 ELSE typeNextChar(S2, text, 0)

animateTypewriter(S, text) ==
  LET S1 == IF S.twId # Null
            THEN [clearTimeout(S, S.twId) EXCEPT !.twId = Null]
            ELSE S
      S2 == [S1 EXCEPT !.tw.content = <<>>, !.tw.text = text]
  IN IF Len(text) = 0 THEN S2 ELSE typeNextChar(S2, text, 0)

\* canvas ids clearVisuals hides besides the created ones
staticCanvases ==
  {"spiral", "ripple", "fractal", "constellation", "waveform", "typography"}

\* The dynamic import at the end of clearVisuals finds neither
\* cleanupWaveformResources nor stopWaveformAudio among the exports of
\* waveform.js, so its callback does nothing.
clearVisuals(S) ==
  LET hidden ==
        [i \in 1..Len(S.dom) |->
           IF \/ /\ S.dom[i].id \in staticCanvases \cup S.created
                 /\ getElementById(S, S.dom[i].id) = i
              \/ S.dom[i].cls = "visualization-container"
           THEN [S.dom[i] EXCEPT !.display = "none"]
           ELSE S.dom[i]]
      S1 == [S EXCEPT !.dom = hidden, !.tw.content = <<>>]
  IN IF S1.twId # Null
     THEN [clearTimeout(S1, S1.twId) EXCEPT !.twId = Null]
     ELSE S1

\* canvas.dataset[field], undefined when the field was never written
DatasetText(S, canvasId, field) ==
  IF canvasId \in DOMAIN S.ds /\ field \in DOMAIN S.ds[canvasId]
  THEN S.ds[canvasId][field].text
  ELSE <<>>

HasDataset(S, canvasId, field) ==
  canvasId \in DOMAIN S.ds /\ field \in DOMAIN S.ds[canvasId]

\* canvas.dataset[field] = value
SetDataset(S, canvasId, field, value) ==
  [S EXCEPT !.ds = Put(@, canvasId,
                       Put(IF canvasId \in DOMAIN S.ds THEN S.ds[canvasId]
                           ELSE EmptyMap,
                           field, [value |-> value, text |-> ToText(value)]))]

DefaultTransform ==
  [scale |-> Whole(1), offsetX |-> Whole(0), offsetY |-> Whole(0)]

\* canvas.dataset.f ? parseFloat(canvas.dataset.f) : default; an absent
\* field is undefined and the empty string is falsy
ParsedField(S, canvasId, field) ==
  IF HasDataset(S, canvasId, field) /\ DatasetText(S, canvasId, field) # <<>>
  THEN parseFloat(DatasetText(S, canvasId, field))
  ELSE DefaultTransform[field]

\* returns the parsed fields without the NaN guard
getCanvasTransformNoGuard(S, canvasId) ==
  IF getElementById(S, canvasId) = 0 THEN DefaultTransform
  ELSE [f \in {"scale", "offsetX", "offsetY"} |-> ParsedField(S, canvasId, f)]

getCanvasTransform(S, canvasId) ==
  IF getElementById(S, canvasId) = 0 THEN DefaultTransform
  ELSE [f \in {"scale", "offsetX", "offsetY"} |->
          LET parsed == ParsedField(S, canvasId, f)
          IN IF isNaN(parsed) THEN DefaultTransform[f] ELSE parsed]

(***************************************************************************)
(* What the redraw callbacks paint.  The transformation of the 2D context  *)
(* is kept as a uniform scale a and a translation (e, f): a drawing call   *)
(* at (x, y) lands on the canvas at (a x + e, a y + f).                    *)
(***************************************************************************)
\* ctx.setTransform(1, 0, 0, 1, 0, 0)
IdentityMatrix == [a |-> Whole(1), e |-> Whole(0), f |-> Whole(0)]

\* ctx.translate(x, y)
ctxTranslate(m, x, y) ==
  [m EXCEPT !.e = Plus(@, Times(m.a, x)), !.f = Plus(@, Times(m.a, y))]

\* ctx.scale(s, s)
ctxScale(m, s) == [m EXCEPT !.a = Times(@, s)]

LandsAt(m, x, y) ==
  <<Plus(Times(m.a, x), m.e), Plus(Times(m.a, y), m.f)>>

\* value || fallback, for a number
OrElse(v, fallback) ==
  IF v.t = "nan" \/ (v.t = "fin" /\ v.n = 0) THEN fallback ELSE v

\* const scale = transform.scale || 1, offsetX = transform.offsetX || 0, ...
TransformOrDefaults(S, canvasId) ==
  LET transform == getCanvasTransform(S, canvasId)
  IN [scale |-> OrElse(transform.scale, Whole(1)),
      offsetX |-> OrElse(transform.offsetX, Whole(0)),
      offsetY |-> OrElse(transform.offsetY, Whole(0))]

\* the canvas whose transform the redraw callback of a plugin reads
TransformCanvas(S, name) ==
  CASE S.reg[name].plugin = "spiral" -> "spiral"
    [] S.reg[name].plugin \in {"ripple1", "ripple2"} -> "ripple"
    [] S.reg[name].plugin = "typography" -> "typography"
    [] OTHER -> S.reg[name].canvasId

\* redrawTreeSpecific, redrawWaveformSpecific, redrawRipple1Specific and
\* redrawRipple2Specific: ctx.translate(offsetX, offsetY), then
\* ctx.scale(scale, scale), then the drawing calls
PaintTranslatedThenScaled(t, x, y) ==
  LandsAt(ctxScale(ctxTranslate(IdentityMatrix, t.offsetX, t.offsetY),
                   t.scale), x, y)

\* redrawSpiralSpecific: ctx.scale(scale, scale) alone; the offsets are
\* added to the centre from which fillText places the points, so that what
\* is drawn at (x, y) without offsets is drawn at (x + offsetX, y + offsetY)
PaintSpiral(t, x, y) ==
  LandsAt(ctxScale(IdentityMatrix, t.scale),
          Plus(x, t.offsetX), Plus(y, t.offsetY))

\* redrawTypographySpecific and redrawFuturisticSpecific:
\* ctx.translate(offsetX * scale, offsetY * scale), then ctx.scale
PaintTranslatedByScaledOffsets(t, x, y) ==
  LandsAt(ctxScale(ctxTranslate(IdentityMatrix, Times(t.offsetX, t.scale),
                                Times(t.offsetY, t.scale)),
                   t.scale), x, y)

\* the state the callback needs to get to its drawing calls
PaintsAnything(S, name) ==
  LET plugin == S.reg[name].plugin
      state == getState(S, name)
  IN /\ HasState(S, name)
     /\ getElementById(S, S.reg[name].canvasId) # 0
     /\ CASE plugin = "spiral" -> Truthy(Get(state, "points"))
          [] plugin = "tree" ->
               Truthy(Get(state, "nodes")) /\ Truthy(Get(state, "links"))
          [] plugin = "waveform" ->
               /\ Truthy(Get(state, "analyzer"))
               /\ Truthy(Get(state, "soundBuffers"))
          [] plugin \in {"ripple1", "ripple2"} -> Truthy(Get(state, "layers"))
          [] plugin = "typography" -> Truthy(Get(state, "characters"))
          [] OTHER -> FALSE

\* where the redraw callback of the instance paints what it paints at
\* (x, y) under the transform scale 1, offsets 0
PaintedAt(S, name, x, y) ==
  LET plugin == S.reg[name].plugin
      t == TransformOrDefaults(S, TransformCanvas(S, name))
  IN CASE plugin = "spiral" -> PaintSpiral(t, x, y)
       [] plugin = "typography" -> PaintTranslatedByScaledOffsets(t, x, y)
       [] OTHER -> PaintTranslatedThenScaled(t, x, y)

(***************************************************************************)
(* js/visualizer-base.js: elements on demand, instances, registry          *)
(***************************************************************************)
createOrGetContainer(S, containerId) ==
  IF getElementById(S, containerId) # 0 THEN S
  ELSE LET existingContainer == FirstContainer(S)
           typewriterContainer == getElementById(S, "typewriterContainer")
           parent == IF existingContainer # 0
                     THEN S.dom[existingContainer].parent
                     ELSE IF typewriterContainer # 0
                          THEN S.dom[typewriterContainer].parent
                          ELSE 0
       IN [S EXCEPT !.dom = Append(@, [id |-> containerId, tag |-> "div",
                                       cls |-> "visualization-container",
                                       parent |-> parent, display |-> "none"])]

\* creates the canvas without looking for an existing one
createCanvasAlways(S, canvasId, container) ==
  [S EXCEPT !.dom = Append(@, [id |-> canvasId, tag |-> "canvas",
                               cls |-> "", parent |-> container,
                               display |-> "none"]),
            !.created = @ \cup {canvasId}]

createOrGetCanvas(S, canvasId, container) ==
  IF getElementById(S, canvasId) # 0 THEN S
  ELSE [S EXCEPT !.dom = Append(@, [id |-> canvasId, tag |-> "canvas",
                                    cls |-> "", parent |-> container,
                                    display |-> "none"]),
                 !.created = @ \cup {canvasId}]

\* `${name}-canvas` and `${name}Container`
DefaultCanvasId ==
  [spiral |-> "spiral-canvas", tree |-> "tree-canvas",
   waveform |-> "waveform-canvas", faulty |-> "faulty-canvas",
   fractal |-> "fractal-canvas", constellation |-> "constellation-canvas"]
DefaultContainerId ==
  [spiral |-> "spiralContainer", tree |-> "treeContainer",
   waveform |-> "waveformContainer", faulty |-> "faultyContainer",
   fractal |-> "fractalContainer", constellation |-> "constellationContainer"]

\* A descriptor is [desc, canvasId, containerId, plugin, stateTemplate]; an
\* omitted id is "".  The instance keeps the ids and the callbacks.
createVisualizer(S, name, options) ==
  LET canvasId == IF options.canvasId = "" THEN DefaultCanvasId[name]
                  ELSE options.canvasId
      containerId == IF options.containerId = "" THEN DefaultContainerId[name]
                     ELSE options.containerId
      S1 == createOrGetContainer(S, containerId)
      container == getElementById(S1, containerId)
      S2 == createOrGetCanvas(S1, canvasId, container)
  IN [S2 EXCEPT !.reg = Put(@, name, [name |-> name, canvasId |-> canvasId,
                                      containerId |-> containerId,
                                      plugin |-> options.plugin,
                                      desc |-> options.desc])]

registerVisualizer(S, name, options) ==
  registerVisualizerState(createVisualizer(S, name, options), name,
                          options.stateTemplate)

\* visualizers[name] || null
HasVisualizer(S, name) == name \in DOMAIN S.reg

(***************************************************************************)
(* The browser's animation-frame queue.  A pending callback is             *)
(* [id, key, w, run]: the handle, the plugin whose loop it is, and the     *)
(* word and run its closure captured.                                      *)
(***************************************************************************)
requestAnimationFrame(S, key, w, run) ==
  [S EXCEPT !.frames = @ \cup {[id |-> S.nextId, key |-> key, w |-> w,
                                run |-> run]},
            !.nextId = @ + 1]

(***************************************************************************)
(* js/visualizers/spiral.js                                                *)
(***************************************************************************)
SpiralTemplate ==
  [points |-> Null, frame |-> Num(0), colors |-> Null, animationId |-> Null]

\* spiralPoints.length: one point per character of every layer
SpiralPoints(w) == TotalChars(LayersOf(w))

\* animate() of renderSpiralSpecific; redrawSpiralSpecific only paints
animateSpiral(S, w, run) ==
  LET state == getState(S, "spiral")
      S1 == updateState(S, "spiral", [frame |-> Num(state.frame.n + 1)])
  IN IF state.frame.n < SpiralPoints(w)
     THEN LET S2 == requestAnimationFrame(S1, "spiral", w, run)
          IN updateState(S2, "spiral", [animationId |-> Num(S1.nextId)])
     ELSE S1

renderSpiralSpecific(S, w, run) ==
  animateSpiral(updateState(S, "spiral", [points |-> Obj(run),
                                          colors |-> Obj(0),
                                          frame |-> Num(0)]), w, run)

(***************************************************************************)
(* js/visualizers/tree.js                                                  *)
(***************************************************************************)
TreeTemplate ==
  [word |-> Null, nodes |-> Null, links |-> Null, width |-> Num(0),
   height |-> Num(0), animationStartTime |-> Num(0),
   animationProgress |-> Num(0), linkAnimations |-> List(0, {}),
   nodeAnimations |-> List(0, {}), animationId |-> Null]

\* animationDuration of animate(), in milliseconds
TreeAnimationDuration == 2000
\* the height of .visualization-container, in pixels
ContainerHeight == 600
\* the width of the page, in pixels
ContainerWidth == 800

Min(a, b) == IF a < b THEN a ELSE b

\* animate() of renderTreeSpecific.  The progress is kept in percent.  The
\* staggered link and node animations (50 ms apart, 500 ms long) of the words
\* explored end before animationDuration, so the loop continues exactly
\* while the progress is below 1.
animateTree(S, w, run) ==
  LET state == getState(S, "tree")
      elapsedTime == S.now - state.animationStartTime.n
      progress == Min(100, (elapsedTime * 100) \div TreeAnimationDuration)
      S1 == updateState(S, "tree",
                        [animationProgress |-> Num(progress),
                         linkAnimations |-> List(progress, {}),
                         nodeAnimations |-> List(progress, {})])
  IN IF progress < 100
     THEN LET S2 == requestAnimationFrame(S1, "tree", w, run)
          IN updateState(S2, "tree", [animationId |-> Num(S1.nextId)])
     ELSE S1

renderTreeSpecific(S, w, run) ==
  IF w = EmptyWord THEN S
  ELSE LET S1 == updateState(S, "tree",
                   [word |-> Str(w - 1), nodes |-> Obj(run), links |-> Obj(run),
                    width |-> Num(ContainerWidth),
                    height |-> Num(ContainerHeight),
                    animationStartTime |-> Num(S.now),
                    animationProgress |-> Num(0),
                    linkAnimations |-> List(0, {}),
                    nodeAnimations |-> List(0, {})])
       IN animateTree(cancelAnimation(S1, "tree"), w, run)

(***************************************************************************)
(* js/visualizers/waveform.js                                              *)
(***************************************************************************)
waveformStateTemplate ==
  [layers |-> Null, word |-> Str(0), audioContext |-> Null, analyzer |-> Null,
   dataArray |-> Null, bufferLength |-> Num(0), colors |-> Obj(0),
   soundBuffers |-> List(0, {}), audioNodes |-> List(0, {}),
   animationStartTime |-> Num(0), animationDuration |-> Num(8000),
   isPlaying |-> Bool(FALSE), dualTrigger |-> Bool(FALSE),
   lastFrameTime |-> Num(0), deltaTime |-> Num(0), animationId |-> Null]

\* the audio context object: there is one per page, and it is none of the
\* objects Obj(run) a render creates
AudioContextHandle == Obj(-1)

\* audio nodes: the two a render connects, the two a ding connects
MasterGain(run) == 4 * run
Analyser(run) == 4 * run + 1
DingSource(frameId) == 4 * frameId + 2
DingGain(frameId) == 4 * frameId + 3

\* analyzer.frequencyBinCount for fftSize = 2048
FrequencyBinCount == 1024

cleanupWaveformAudioResources(S) ==
  LET state == getState(S, "waveform")
  IN IF HasState(S, "waveform") /\ Truthy(Get(state, "audioNodes"))
     THEN DisconnectAll(S, state.audioNodes.s)
     ELSE S

\* playDingSound(sound) from the frame with handle frameId
playDingSound(S, frameId) ==
  LET state == getState(S, "waveform")
      nodes == {DingSource(frameId), DingGain(frameId)}
  IN IF ~Truthy(Get(state, "isPlaying")) \/ ~Truthy(Get(state, "audioContext"))
     THEN S
     ELSE LET S1 == [S EXCEPT !.graph = @ \cup nodes]
          IN IF Truthy(Get(state, "audioNodes"))
             THEN [S1 EXCEPT !.vs["waveform"].audioNodes.s = @ \cup nodes]
             ELSE updateState(S1, "waveform", [audioNodes |-> List(0, nodes)])

\* toggles isPlaying and leaves the word input as it is
toggleWaveformAudioStateOnly(S) ==
  LET state == getState(S, "waveform")
  IN IF ~HasState(S, "waveform") \/ ~Truthy(Get(state, "soundBuffers")) THEN S
     ELSE updateState(S, "waveform",
                      [isPlaying |-> Bool(~Truthy(Get(state, "isPlaying")))])

toggleWaveformAudio(S) ==
  LET state == getState(S, "waveform")
  IN IF ~HasState(S, "waveform") \/ ~Truthy(Get(state, "soundBuffers")) THEN S
     ELSE LET isPlaying == ~Truthy(Get(state, "isPlaying"))
              S1 == updateState(S, "waveform", [isPlaying |-> Bool(isPlaying)])
          IN [S1 EXCEPT !.input.disabled = isPlaying]

toggleDualTrigger(S) ==
  LET state == getState(S, "waveform")
  IN IF ~HasState(S, "waveform") \/ ~Truthy(Get(state, "soundBuffers")) THEN S
     ELSE updateState(S, "waveform",
                      [dualTrigger |-> Bool(~Truthy(Get(state, "dualTrigger")))])

stopWaveformVisualization(S) ==
  LET state == getState(S, "waveform")
      S1 == IF HasState(S, "waveform")
            THEN LET Sa == IF Truthy(Get(state, "animationId"))
                           THEN cancelAnimationFrame(S, state.animationId)
                           ELSE S
                     Sb == cleanupWaveformAudioResources(Sa)
                 IN updateState(Sb, "waveform",
                                [isPlaying |-> Bool(FALSE), animationId |-> Null,
                                 audioNodes |-> List(0, {})])
            ELSE S
  IN [S1 EXCEPT !.input.disabled = FALSE]

\* drawFrame() of the completion callback of run `run`; frameId is the handle
\* of the callback that runs it (0 for the direct call), ding tells whether a
\* sound crosses a trigger angle in this frame.
drawFrame(S, w, run, frameId, ding) ==
  LET state == getState(S, "waveform")
  IN IF ~HasState(S, "waveform") \/ ~Truthy(Get(state, "soundBuffers")) THEN S
     ELSE LET deltaTime == S.now - Get(state, "lastFrameTime").n
              S1 == IF Truthy(Get(state, "isPlaying")) /\ deltaTime > 0 /\ ding
                    THEN playDingSound(S, frameId)
                    ELSE S
              S2 == updateState(S1, "waveform",
                      [elapsedTime |-> Num(S.now - Get(state, "animationStartTime").n),
                       lastFrameTime |-> Num(S.now),
                       deltaTime |-> Num(deltaTime),
                       soundBuffers |-> S1.vs["waveform"].soundBuffers])
              S3 == requestAnimationFrame(S2, "waveform", w, run)
          IN updateState(S3, "waveform", [animationId |-> Num(S2.nextId)])

\* the callback of Promise.all(bufferPromises) of run `run`
buffersReady(S, w, run) ==
  LET S1 == updateState(S, "waveform",
              [word |-> Str(w - 1), layers |-> Obj(run), analyzer |-> Obj(run),
               dataArray |-> Obj(run), bufferLength |-> Num(FrequencyBinCount),
               soundBuffers |-> List(run, {}),
               audioNodes |-> List(0, {MasterGain(run), Analyser(run)}),
               animationStartTime |-> Num(S.now),
               lastFrameTime |-> Num(S.now), deltaTime |-> Num(0)])
      currentWaveformState == getState(S1, "waveform")
      S2 == [S1 EXCEPT !.input.disabled =
                          Truthy(Get(currentWaveformState, "isPlaying")),
                       !.onclick = TRUE]
  IN drawFrame(S2, w, run, 0, FALSE)

\* goes on to build the sound buffers after the constructor has thrown
renderWaveformIgnoringFailure(S, w, run, audioOk) ==
  LET S1 == cleanupWaveformAudioResources(S)
      S2 == IF S1.lac = Null /\ ~audioOk THEN S1
            ELSE [S1 EXCEPT !.lac = AudioContextHandle]
      S3 == updateState(S2, "waveform", [audioContext |-> S2.lac])
  IN [S3 EXCEPT !.graph = @ \cup {MasterGain(run), Analyser(run)},
                !.buffers = @ \cup {[w |-> w, run |-> run]}]

\* audioOk: whether `new AudioContext()` succeeds when it is attempted
renderWaveformSpecific(S, w, run, audioOk) ==
  LET S1 == cleanupWaveformAudioResources(S)
  IN IF S1.lac = Null /\ ~audioOk
     THEN updateState(S1, "waveform", [audioContext |-> Null])
     ELSE LET S2 == [S1 EXCEPT !.lac = AudioContextHandle]
              S3 == updateState(S2, "waveform", [audioContext |-> S2.lac])
          IN [S3 EXCEPT !.graph = @ \cup {MasterGain(run), Analyser(run)},
                        !.buffers = @ \cup {[w |-> w, run |-> run]}]

(***************************************************************************)
(* js/visualizer-base.js: render                                           *)
(***************************************************************************)
(***************************************************************************)
(* A plugin whose callbacks throw, as a plugin under test may: its render  *)
(* callback writes its record and throws, its redraw callback throws.      *)
(***************************************************************************)
FaultyTemplate == [frame |-> Num(0), animationId |-> Null]

renderFaultySpecific(S) == Throw(updateState(S, "faulty", [frame |-> Num(1)]))

redrawFaultySpecific(S) == Throw(S)

(***************************************************************************)
(* The typography plugin (unnamed/part_002)                                *)
(***************************************************************************)
TypographyTemplate ==
  [characters |-> Null, frame |-> Num(0), colors |-> Null, centerX |-> Num(0),
   centerY |-> Num(0), maxFrames |-> Num(120), animationId |-> Null]

\* the characters array a render builds.  Its objects hold currentX,
\* currentY, rotation and opacity; s holds the number of times these have
\* been moved towards their targets.
Characters(run, steps) == [k |-> "obj", n |-> run, s |-> {steps}]
EasingSteps(characters) == CHOOSE steps \in characters.s : TRUE

\* redrawTypographySpecific(state, canvas, ctx) with state.frame = frame.
\* The first character of the word has delay 0 and a target away from the
\* centre it starts at: for a frame above 0 its progress is above 0, and
\* char.currentX, char.currentY and char.rotation are moved by the eased
\* progress, which is not 0 and, below 60 frames, does not reach the target.
redrawTypographySpecific(S, frame) ==
  LET characters == Get(getState(S, "typography"), "characters")
  IN IF ~Truthy(characters) \/ frame <= 0 THEN S
     ELSE [S EXCEPT !.vs["typography"].characters =
                      Characters(characters.n, EasingSteps(characters) + 1)]

\* animate() of renderTypographySpecific: draws with the record it read
\* before the frame was counted
animateTypography(S, w, run) ==
  LET state == getState(S, "typography")
      S1 == updateState(S, "typography", [frame |-> Num(state.frame.n + 1)])
      S2 == redrawTypographySpecific(S1, state.frame.n)
  IN IF state.frame.n < state.maxFrames.n + TotalChars(LayersOf(w))
     THEN LET S3 == requestAnimationFrame(S2, "typography", w, run)
          IN updateState(S3, "typography", [animationId |-> Num(S2.nextId)])
     ELSE S2

renderTypographySpecific(S, w, run) ==
  animateTypography(
    updateState(S, "typography",
                [characters |-> Characters(run, 0), frame |-> Num(0),
                 colors |-> Obj(0), centerX |-> Num(ContainerWidth \div 2),
                 centerY |-> Num(ContainerHeight \div 2),
                 maxFrames |-> Num(120)]), w, run)

renderFunction(S, plugin, w, run, audioOk) ==
  CASE plugin = "spiral" -> renderSpiralSpecific(S, w, run)
    [] plugin = "tree" -> renderTreeSpecific(S, w, run)
    [] plugin = "waveform" -> renderWaveformSpecific(S, w, run, audioOk)
    [] plugin = "faulty" -> renderFaultySpecific(S)
    [] plugin = "typography" -> renderTypographySpecific(S, w, run)
    [] OTHER -> S

\* calls the render callback and lets its exception through
callRenderFunction(S, plugin, w, run, audioOk) ==
  renderFunction(Invoked(S, "renderFunction"), plugin, w, run, audioOk)

\* try { renderFunction(word, canvas, ctx, layers) } catch (error) { ... }
tryRenderFunction(S, plugin, w, run, audioOk) ==
  Catch(renderFunction(Invoked(S, "renderFunction"), plugin, w, run, audioOk))

\* shows the elements that exist and goes on without the missing ones
renderBodyUnchecked(S, name, w, audioOk) ==
  LET inst == S.reg[name]
      container == getElementById(S, inst.containerId)
      S1 == IF container = 0 THEN S ELSE SetDisplay(S, container, "block")
      canvas == getElementById(S1, inst.canvasId)
      S2 == IF canvas = 0 THEN S1 ELSE SetDisplay(S1, canvas, "block")
      S3 == animateTypewriter(Invoked(Invoked(S2, "generatePhoneticLayers"),
                                      "animateTypewriter"),
                              getFinalLayerText(LayersOf(w)))
      S4 == cancelAnimation(Invoked(S3, "cancelAnimation"), name)
      S5 == resetState(Invoked(S4, "resetState"), name)
      S6 == [S5 EXCEPT !.run = @ + 1,
                       !.atCallback = [key |-> name, w |-> w,
                                       state |-> getState(S5, name)]]
  IN tryRenderFunction(S6, inst.plugin, w, S6.run, audioOk)

\* render(word) after the guard on the word
renderBody(S, name, w, audioOk) ==
  LET inst == S.reg[name]
      container == getElementById(S, inst.containerId)
      S1 == SetDisplay(S, container, "block")
      canvas == getElementById(S1, inst.canvasId)
      S2 == SetDisplay(S1, canvas, "block")
      S3 == animateTypewriter(Invoked(Invoked(S2, "generatePhoneticLayers"),
                                      "animateTypewriter"),
                              getFinalLayerText(LayersOf(w)))
      S4 == cancelAnimation(Invoked(S3, "cancelAnimation"), name)
      S5 == resetState(Invoked(S4, "resetState"), name)
      S6 == [S5 EXCEPT !.run = @ + 1,
                       !.atCallback = [key |-> name, w |-> w,
                                       state |-> getState(S5, name)]]
  IN IF container = 0 THEN Invoked(S, "console.error")
     ELSE IF canvas = 0 THEN Invoked(S1, "console.error")
     ELSE tryRenderFunction(S6, inst.plugin, w, S6.run, audioOk)

\* render(word) without the guard on the word
renderUnguarded(S, name, w, audioOk) == renderBody(S, name, w, audioOk)

\* render(word) of the instance registered under `name`
render(S, name, w, audioOk) ==
  IF w = EmptyWord THEN Invoked(S, "console.error")
  ELSE renderBody(S, name, w, audioOk)

\* the redraw callbacks of spiral, tree and waveform paint the record on the
\* canvas and write nothing
redrawFunction(S, plugin) ==
  CASE plugin = "faulty" -> redrawFaultySpecific(S)
    [] plugin = "typography" ->
         redrawTypographySpecific(S, getState(S, "typography").frame.n)
    [] OTHER -> S

\* try { redrawFunction(state, canvas, ctx) } catch (error) { ... }
tryRedrawFunction(S, plugin) ==
  Catch(redrawFunction(Invoked(S, "redrawFunction"), plugin))

\* redraw() of the instance registered under `name`
redraw(S, name) ==
  LET inst == S.reg[name]
  IN IF ~HasState(S, name) THEN Invoked(S, "console.error")
     ELSE IF getElementById(S, inst.canvasId) = 0
     THEN Invoked(S, "console.error")
     ELSE tryRedrawFunction(S, inst.plugin)

(***************************************************************************)
(* js/main.js: renderSelectedVisualization                                 *)
(***************************************************************************)
HideAllContainers(S) ==
  [S EXCEPT !.dom = [i \in 1..Len(S.dom) |->
                       IF S.dom[i].cls = "visualization-container"
                       THEN [S.dom[i] EXCEPT !.display = "none"]
                       ELSE S.dom[i]]]

\* renders the choice without clearing what the selection before has shown
renderSelectedVisualizationWithoutHiding(S, audioOk) ==
  LET choice == S.sel
      w == S.input.value
      S1 == IF S.prev = "waveform" /\ S.prev # choice
            THEN stopWaveformVisualization(S)
            ELSE S
  IN IF w = EmptyWord THEN S1
     ELSE IF choice = ""
     THEN LET S2 == [S1 EXCEPT !.sel = "tree"]
          IN IF HasVisualizer(S2, "tree") THEN render(S2, "tree", w, audioOk)
             ELSE S2
     ELSE LET S3 == [S1 EXCEPT !.input.disabled = FALSE]
          IN IF HasVisualizer(S3, choice)
             THEN [render(S3, choice, w, audioOk) EXCEPT !.prev = choice]
             ELSE [S3 EXCEPT !.prev = choice]

renderSelectedVisualization(S, audioOk) ==
  LET choice == S.sel
      w == S.input.value
      S1 == IF S.prev = "waveform" /\ S.prev # choice
            THEN stopWaveformVisualization(S)
            ELSE S
  IN IF w = EmptyWord THEN S1
     ELSE IF choice = ""
     THEN LET S2 == [S1 EXCEPT !.sel = "tree"]
          IN IF HasVisualizer(S2, "tree") THEN render(S2, "tree", w, audioOk)
             ELSE S2
     ELSE LET S2 == HideAllContainers(clearVisuals(S1))
              S3 == [S2 EXCEPT !.input.disabled = FALSE]
          IN IF HasVisualizer(S3, choice)
             THEN [render(S3, choice, w, audioOk) EXCEPT !.prev = choice]
             ELSE IF HasVisualizer(S3, "tree")
                  THEN [render(S3, "tree", w, audioOk) EXCEPT !.prev = choice]
                  ELSE [S3 EXCEPT !.prev = choice]

(***************************************************************************)
(* js/main.js: triggerRedraw and the zoom/pan closure of one canvas        *)
(***************************************************************************)
\* Object.entries(visualizers): the keys in the order of their registration
VisualizerOrder ==
  <<"tree", "spiral", "waveform", "faulty", "typography", "ripple1", "ripple2">>

UsesCanvas(S, name, canvasId) ==
  HasVisualizer(S, name) /\ S.reg[name].canvasId = canvasId

\* The legacy branch knows the canvases "constellation" and "fractal" only,
\* and its imports run later; for any other canvas it logs a warning.
\* visualizerToRedraw.redraw()
Redrawing(S, name) ==
  redraw([Invoked(S, "redraw") EXCEPT !.h.redrawn = Append(@, name)], name)

\* the first registered user of the canvas, whatever is selected
triggerRedrawFirstRegistered(S, canvasId) ==
  LET users == {i \in 1..Len(VisualizerOrder) :
                  UsesCanvas(S, VisualizerOrder[i], canvasId)}
      first == CHOOSE i \in users : \A j \in users : i <= j
  IN IF users # {} THEN Redrawing(S, VisualizerOrder[first]) ELSE S

triggerRedraw(S, canvasId) ==
  LET currentViz == S.sel
      users == {i \in 1..Len(VisualizerOrder) :
                  UsesCanvas(S, VisualizerOrder[i], canvasId)}
      first == CHOOSE i \in users : \A j \in users : i <= j
  IN IF currentViz # "" /\ UsesCanvas(S, currentViz, canvasId)
     THEN Redrawing(S, currentViz)
     ELSE IF users # {}
     THEN Redrawing(S, VisualizerOrder[first])
     ELSE S

minScale == Fin(1, 5)
maxScale == Whole(5)
zoomIntensity == Fin(1, 10)

\* the canvas whose closure is modelled
ZoomCanvas == "spiral"

\* canvas.dataset.scale = scale; ...offsetX = offsetX; ...offsetY = offsetY
WriteTransform(S) ==
  SetDataset(SetDataset(SetDataset(S, S.zoom.canvasId, "scale", S.zoom.scale),
                        S.zoom.canvasId, "offsetX", S.zoom.offsetX),
             S.zoom.canvasId, "offsetY", S.zoom.offsetY)

\* stops within the epsilon without setting scale and offsets to the targets
animateZoomWithoutSnap(S) ==
  LET z == S.zoom
      scaleDiff == Minus(z.targetScale, z.scale)
      offsetXDiff == Minus(z.targetOffsetX, z.offsetX)
      offsetYDiff == Minus(z.targetOffsetY, z.offsetY)
      closeEnough == /\ Less(MathAbs(scaleDiff), Fin(1, 1000))
                     /\ Less(MathAbs(offsetXDiff), Fin(1, 10))
                     /\ Less(MathAbs(offsetYDiff), Fin(1, 10))
      S1 == IF closeEnough
            THEN [S EXCEPT !.zoom.zoomAnimationId = Null]
            ELSE [requestAnimationFrame(S, "zoom", EmptyWord, 0)
                    EXCEPT !.zoom.scale = Plus(z.scale, Times(scaleDiff, Fin(1, 10))),
                           !.zoom.offsetX = Plus(z.offsetX, Times(offsetXDiff, Fin(1, 10))),
                           !.zoom.offsetY = Plus(z.offsetY, Times(offsetYDiff, Fin(1, 10))),
                           !.zoom.zoomAnimationId = Num(S.nextId)]
  IN triggerRedraw(WriteTransform(S1), S.zoom.canvasId)

animateZoom(S) ==
  LET z == S.zoom
      scaleDiff == Minus(z.targetScale, z.scale)
      offsetXDiff == Minus(z.targetOffsetX, z.offsetX)
      offsetYDiff == Minus(z.targetOffsetY, z.offsetY)
      scaleStep == Times(scaleDiff, Fin(1, 10))
      offsetXStep == Times(offsetXDiff, Fin(1, 10))
      offsetYStep == Times(offsetYDiff, Fin(1, 10))
      closeEnough == /\ Less(MathAbs(scaleDiff), Fin(1, 1000))
                     /\ Less(MathAbs(offsetXDiff), Fin(1, 10))
                     /\ Less(MathAbs(offsetYDiff), Fin(1, 10))
      S1 == IF closeEnough
            THEN [S EXCEPT !.zoom.scale = z.targetScale,
                           !.zoom.offsetX = z.targetOffsetX,
                           !.zoom.offsetY = z.targetOffsetY,
                           !.zoom.zoomAnimationId = Null]
            ELSE [requestAnimationFrame(S, "zoom", EmptyWord, 0)
                    EXCEPT !.zoom.scale = Plus(z.scale, scaleStep),
                           !.zoom.offsetX = Plus(z.offsetX, offsetXStep),
                           !.zoom.offsetY = Plus(z.offsetY, offsetYStep),
                           !.zoom.zoomAnimationId = Num(S.nextId)]
  IN triggerRedraw(WriteTransform(S1), S.zoom.canvasId)

\* the target without the clamp to [minScale, maxScale]
WheelTargetUnclamped(z, delta, mouseX, mouseY) ==
  LET targetScale == Times(z.scale, Plus(Whole(1), delta))
      worldX == Over(Minus(mouseX, z.offsetX), z.scale)
      worldY == Over(Minus(mouseY, z.offsetY), z.scale)
  IN [targetScale |-> targetScale,
      targetOffsetX |-> Minus(mouseX, Times(worldX, targetScale)),
      targetOffsetY |-> Minus(mouseY, Times(worldY, targetScale))]

\* the target offsets computed from the scale before the clamp
WheelTargetOffsetsBeforeClamp(z, delta, mouseX, mouseY) ==
  LET unclamped == Times(z.scale, Plus(Whole(1), delta))
      worldX == Over(Minus(mouseX, z.offsetX), z.scale)
      worldY == Over(Minus(mouseY, z.offsetY), z.scale)
  IN [targetScale |-> MathMax(minScale, MathMin(maxScale, unclamped)),
      targetOffsetX |-> Minus(mouseX, Times(worldX, unclamped)),
      targetOffsetY |-> Minus(mouseY, Times(worldY, unclamped))]

\* targetScale, targetOffsetX and targetOffsetY of the wheel listener
WheelTarget(z, delta, mouseX, mouseY) ==
  LET targetScale ==
        MathMax(minScale,
                MathMin(maxScale, Times(z.scale, Plus(Whole(1), delta))))
      worldX == Over(Minus(mouseX, z.offsetX), z.scale)
      worldY == Over(Minus(mouseY, z.offsetY), z.scale)
  IN [targetScale |-> targetScale,
      targetOffsetX |-> Minus(mouseX, Times(worldX, targetScale)),
      targetOffsetY |-> Minus(mouseY, Times(worldY, targetScale))]

\* the wheel listener; deltaYNegative is event.deltaY < 0
wheel(S, deltaYNegative, mouseX, mouseY) ==
  LET delta == IF deltaYNegative THEN zoomIntensity
               ELSE Minus(Whole(0), zoomIntensity)
      target == WheelTarget(S.zoom, delta, mouseX, mouseY)
      S1 == [S EXCEPT !.zoom.targetScale = target.targetScale,
                      !.zoom.targetOffsetX = target.targetOffsetX,
                      !.zoom.targetOffsetY = target.targetOffsetY]
      S2 == IF Truthy(S1.zoom.zoomAnimationId)
            THEN cancelAnimationFrame(S1, S1.zoom.zoomAnimationId)
            ELSE S1
  IN [requestAnimationFrame(S2, "zoom", EmptyWord, 0)
        EXCEPT !.zoom.zoomAnimationId = Num(S2.nextId)]

mousedown(S, clientX, clientY) ==
  [S EXCEPT !.zoom.isDragging = TRUE, !.zoom.lastX = clientX,
            !.zoom.lastY = clientY]

\* pans and leaves the target offsets of the animation where they were
mousemoveKeepingTargets(S, clientX, clientY) ==
  LET z == S.zoom
      offsetX == Plus(z.offsetX, Minus(clientX, z.lastX))
      offsetY == Plus(z.offsetY, Minus(clientY, z.lastY))
      S1 == [S EXCEPT !.zoom.offsetX = offsetX, !.zoom.offsetY = offsetY,
                      !.zoom.lastX = clientX, !.zoom.lastY = clientY]
  IN IF z.isDragging THEN triggerRedraw(WriteTransform(S1), z.canvasId)
     ELSE S

\* pans whether or not a drag is going on
mousemoveAlways(S, clientX, clientY) ==
  LET z == S.zoom
      offsetX == Plus(z.offsetX, Minus(clientX, z.lastX))
      offsetY == Plus(z.offsetY, Minus(clientY, z.lastY))
      S1 == [S EXCEPT !.zoom.offsetX = offsetX, !.zoom.offsetY = offsetY,
                      !.zoom.lastX = clientX, !.zoom.lastY = clientY,
                      !.zoom.targetOffsetX = offsetX,
                      !.zoom.targetOffsetY = offsetY]
  IN triggerRedraw(WriteTransform(S1), S.zoom.canvasId)

mousemove(S, clientX, clientY) ==
  LET z == S.zoom
      offsetX == Plus(z.offsetX, Minus(clientX, z.lastX))
      offsetY == Plus(z.offsetY, Minus(clientY, z.lastY))
      S1 == [S EXCEPT !.zoom.offsetX = offsetX, !.zoom.offsetY = offsetY,
                      !.zoom.lastX = clientX, !.zoom.lastY = clientY,
                      !.zoom.targetOffsetX = offsetX,
                      !.zoom.targetOffsetY = offsetY]
  IN IF z.isDragging THEN triggerRedraw(WriteTransform(S1), z.canvasId)
     ELSE S

mouseup(S) == [S EXCEPT !.zoom.isDragging = FALSE]

mouseleave(S) == [S EXCEPT !.zoom.isDragging = FALSE]

(***************************************************************************)
(* The page before the scripts run (index.html), and the state after the   *)
(* modules are loaded: main.js imports tree, spiral and waveform, and each *)
(* module registers its visualizer.                                        *)
(***************************************************************************)
StaticDom ==
  << [id |-> "typewriterContainer", tag |-> "div", cls |-> "", parent |-> 0,
      display |-> "block"],
     [id |-> "typewriterText", tag |-> "span", cls |-> "", parent |-> 1,
      display |-> "block"],
     [id |-> "spiralContainer", tag |-> "div",
      cls |-> "visualization-container", parent |-> 0, display |-> "none"],
     [id |-> "spiral", tag |-> "canvas", cls |-> "", parent |-> 3,
      display |-> "none"],
     [id |-> "waveformContainer", tag |-> "div",
      cls |-> "visualization-container", parent |-> 0, display |-> "none"],
     [id |-> "waveform", tag |-> "canvas", cls |-> "", parent |-> 5,
      display |-> "none"] >>

NoReset ==
  [key |-> "", priorFields |-> {}, priorContext |-> Undefined,
   after |-> EmptyMap]
NoCallback == [key |-> "", w |-> EmptyWord, state |-> EmptyMap]
NoLog == [op |-> "", key |-> "", arg |-> EmptyMap, prior |-> Undefined]

\* the variables of the closure setupCanvasZoomPan creates for a canvas
InitialZoomPan ==
  [scale |-> Whole(1), offsetX |-> Whole(0), offsetY |-> Whole(0),
   isDragging |-> FALSE, lastX |-> Whole(0), lastY |-> Whole(0),
   targetScale |-> Whole(1), targetOffsetX |-> Whole(0), targetOffsetY |-> Whole(0),
   zoomAnimationId |-> Null, canvasId |-> ZoomCanvas]

Unloaded ==
  [vs |-> InitialVisualizationState, vt |-> EmptyMap, reg |-> EmptyMap,
   created |-> {}, dom |-> StaticDom, frames |-> {}, nextId |-> 1,
   buffers |-> {}, run |-> 0, graph |-> {}, lac |-> Null, onclick |-> FALSE,
   prev |-> "", sel |-> "", input |-> [value |-> EmptyWord, disabled |-> FALSE],
   twId |-> Null, tw |-> [content |-> <<>>, text |-> <<>>, timers |-> {},
                          nextTimer |-> 1, cancelled |-> 0],
   now |-> 0, lastReset |-> NoReset, atCallback |-> NoCallback,
   ds |-> EmptyMap, zoom |-> InitialZoomPan, zl |-> <<>>, log |-> NoLog,
   h |-> NoHandler]

TreeDescriptor ==
  [desc |-> 1, canvasId |-> "", containerId |-> "", plugin |-> "tree",
   stateTemplate |-> TreeTemplate]
SpiralDescriptor ==
  [desc |-> 1, canvasId |-> "spiral", containerId |-> "spiralContainer",
   plugin |-> "spiral", stateTemplate |-> SpiralTemplate]
WaveformDescriptor ==
  [desc |-> 1, canvasId |-> "waveform", containerId |-> "waveformContainer",
   plugin |-> "waveform", stateTemplate |-> waveformStateTemplate]

Loaded ==
  registerVisualizer(
    registerVisualizer(
      registerVisualizer(Unloaded, "tree", TreeDescriptor),
      "spiral", SpiralDescriptor),
    "waveform", WaveformDescriptor)

Starts(S) ==
  /\ visualizationState = S.vs
  /\ visualizerTemplates = S.vt
  /\ visualizers = S.reg
  /\ createdCanvases = S.created
  /\ dom = S.dom
  /\ pendingFrames = S.frames
  /\ nextFrameId = S.nextId
  /\ pendingBuffers = S.buffers
  /\ runCount = S.run
  /\ audioGraph = S.graph
  /\ localAudioContext = S.lac
  /\ canvasOnclick = S.onclick
  /\ previouslySelectedVisualizerName = S.prev
  /\ selectValue = S.sel
  /\ wordInput = S.input
  /\ typewriterTimeoutId = S.twId
  /\ typewriter = S.tw
  /\ now = S.now
  /\ lastReset = S.lastReset
  /\ atCallback = S.atCallback
  /\ dataset = S.ds
  /\ zoomPan = S.zoom
  /\ zoomListeners = S.zl
  /\ log = S.log
  /\ handler = S.h

Init == Starts(Loaded)

(***************************************************************************)
(* Events of the page.                                                     *)
(***************************************************************************)
\* the user picks another option of the selection control
SelectChange(choice, audioOk) ==
  /\ choice \in DOMAIN visualizers
  /\ choice # selectValue
  /\ runCount < MaxRuns
  /\ nextFrameId <= MaxFrameId
  /\ Become(renderSelectedVisualization([Cur EXCEPT !.sel = choice], audioOk))

\* the user edits the word
InputWord(w, audioOk) ==
  /\ ~wordInput.disabled
  /\ w # wordInput.value
  /\ runCount < MaxRuns
  /\ nextFrameId <= MaxFrameId
  /\ LET S == [Cur EXCEPT !.input.value = w]
     IN Become(IF w # EmptyWord
               THEN renderSelectedVisualization(S, audioOk)
               ELSE S)

\* the browser runs a pending animation-frame callback
FrameFire(c, ding) ==
  /\ c \in pendingFrames
  /\ nextFrameId <= MaxFrameId
  /\ LET S == [Cur EXCEPT !.frames = @ \ {c}]
     IN Become(CASE c.key = "spiral" -> animateSpiral(S, c.w, c.run)
                 [] c.key = "tree" -> animateTree(S, c.w, c.run)
                 [] c.key = "waveform" -> drawFrame(S, c.w, c.run, c.id, ding))

\* every sound buffer of a waveform render is ready
BuffersReady(b) ==
  /\ b \in pendingBuffers
  /\ nextFrameId <= MaxFrameId
  /\ Become(buffersReady([Cur EXCEPT !.buffers = @ \ {b}], b.w, b.run))

\* the caption timer fires
TypewriterTimer(t) ==
  /\ t \in typewriter.timers
  /\ Become(typeNextChar([Cur EXCEPT !.tw.timers = @ \ {t}],
                         t.text, t.currentChar))

WaveformCanvasShown ==
  LET c == getElementById(Cur, "waveform")
  IN c # 0 /\ dom[c].display = "block"

\* canvas.onclick on the play/pause button
ClickPlay ==
  /\ canvasOnclick
  /\ WaveformCanvasShown
  /\ Become(toggleWaveformAudio(Cur))

\* canvas.onclick on the dual-trigger button
ClickDual ==
  /\ canvasOnclick
  /\ WaveformCanvasShown
  /\ Become(toggleDualTrigger(Cur))

\* time passes
TickMs == TreeAnimationDuration
Tick ==
  /\ now < MaxTicks * TickMs
  /\ Become([Cur EXCEPT !.now = @ + TickMs])

Next ==
  \/ \E choice \in {"spiral", "tree", "waveform"}, audioOk \in BOOLEAN :
       SelectChange(choice, audioOk)
  \/ \E w \in WordIds, audioOk \in BOOLEAN : InputWord(w, audioOk)
  \/ \E c \in pendingFrames, ding \in BOOLEAN : FrameFire(c, ding)
  \/ \E b \in pendingBuffers : BuffersReady(b)
  \/ ClickPlay
  \/ ClickDual
  \/ Tick

Spec == Init /\ [][Next]_vars

(***************************************************************************)
(* The store on its own: state.js called directly, with any key.  "ghost"  *)
(* has neither a record nor a template.  The partial records are ones the  *)
(* plugins pass to updateState.  log keeps the call and the record the key *)
(* had before it.                                                          *)
(***************************************************************************)
StoreKeys == {"spiral", "waveform", "ghost"}

StorePartials(key) ==
  IF key = "waveform"
  THEN {[audioContext |-> AudioContextHandle],
        [isPlaying |-> Bool(FALSE), animationId |-> Null,
         audioNodes |-> List(0, {})],
        [elapsedTime |-> Num(0), lastFrameTime |-> Num(TickMs),
         deltaTime |-> Num(TickMs), soundBuffers |-> List(1, {})]}
  ELSE {[points |-> Obj(1), colors |-> Obj(0), frame |-> Num(0)],
        [frame |-> Num(1)]}

Called(S, op, key, arg, prior) ==
  [S EXCEPT !.log = [op |-> op, key |-> key, arg |-> arg, prior |-> prior]]

StoreUpdate(key, partial) ==
  /\ key = log.key
  /\ Become(Called(updateState(Cur, key, partial), "update", key, partial,
                getState(Cur, key)))

StoreReset(key) ==
  /\ key = log.key
  /\ Become(Called(resetState(Cur, key), "reset", key, EmptyMap,
                getState(Cur, key)))

StoreCancel(key) ==
  /\ key = log.key
  /\ Become(Called(cancelAnimation(Cur, key), "cancel", key, EmptyMap,
                getState(Cur, key)))

\* the caller keeps what getState returned
StoreGet(key) ==
  /\ key = log.key
  /\ Become(Called(Cur, "get", key, EmptyMap, getState(Cur, key)))

\* const animationId = requestAnimationFrame(animate);
\* updateState(key, { animationId });
StoreSchedule(key) ==
  /\ key = log.key
  /\ nextFrameId <= MaxFrameId
  /\ LET S1 == requestAnimationFrame(Cur, key, EmptyWord, 0)
         partial == [animationId |-> Num(Cur.nextId)]
     IN Become(Called(updateState(S1, key, partial), "schedule", key, partial,
                      getState(Cur, key)))

\* the browser runs a pending callback, which does nothing further
StoreFrame(c) ==
  /\ c \in pendingFrames
  /\ Become(Called([Cur EXCEPT !.frames = @ \ {c}], "frame", c.key, EmptyMap,
                   getState(Cur, c.key)))

NextStore ==
  \/ \E key \in StoreKeys : \E partial \in StorePartials(key) :
       StoreUpdate(key, partial)
  \/ \E key \in StoreKeys : StoreReset(key)
  \/ \E key \in StoreKeys : StoreCancel(key)
  \/ \E key \in StoreKeys : StoreGet(key)
  \/ \E key \in StoreKeys : StoreSchedule(key)
  \/ \E c \in pendingFrames : StoreFrame(c)

\* one key is exercised per behaviour: log.key names it from the start
InitStore == \E key \in StoreKeys : Starts([Loaded EXCEPT !.log.key = key])

SpecStore == InitStore /\ [][NextStore]_vars

(***************************************************************************)
(* Registration on its own: registerVisualizer called any number of times  *)
(* on the page as it is before the modules load, with descriptors that     *)
(* name or omit their element ids.                                         *)
(***************************************************************************)
RegKeys == {"spiral", "tree"}
RegCanvasIds == {"", "ripple"}
RegContainerIds == {"", "rippleContainer"}
RegDescs == {1, 2}

TemplateOf(name) ==
  CASE name = "spiral" -> SpiralTemplate
    [] name = "tree" -> TreeTemplate
    [] name = "waveform" -> waveformStateTemplate

Register(name, options) ==
  Become(Called(registerVisualizer(Cur, name, options), "register", name,
                options, Bool(HasVisualizer(Cur, name))))

InitReg == Starts(Unloaded)

NextReg ==
  \E name \in RegKeys, canvasId \in RegCanvasIds,
     containerId \in RegContainerIds, desc \in RegDescs :
    Register(name, [desc |-> desc, canvasId |-> canvasId,
                    containerId |-> containerId, plugin |-> name,
                    stateTemplate |-> TemplateOf(name)])

SpecReg == InitReg /\ [][NextReg]_vars

(***************************************************************************)
(* The instances called directly, as the orchestrator or a test calls      *)
(* them: render(word) with any word, the empty one included, redraw(),     *)
(* with a plugin whose callbacks throw among the registered ones, and with *)
(* elements that are removed from the document.                            *)
(***************************************************************************)
InstKeys == {"spiral", "tree", "faulty"}
InstRemovable == {"spiral", "treeContainer"}

FaultyDescriptor ==
  [desc |-> 1, canvasId |-> "", containerId |-> "", plugin |-> "faulty",
   stateTemplate |-> FaultyTemplate]

LoadedWithFaulty == registerVisualizer(Loaded, "faulty", FaultyDescriptor)

\* element.remove(): the element and its children leave the document
Detached == [id |-> "", tag |-> "", cls |-> "", parent |-> 0, display |-> "none"]
removeElement(S, id) ==
  LET e == getElementById(S, id)
  IN [S EXCEPT !.dom = [i \in 1..Len(S.dom) |->
                          IF i = e \/ S.dom[i].parent = e THEN Detached
                          ELSE S.dom[i]]]

\* the state every variable but log and handler holds
pageVars ==
  <<visualizationState, visualizerTemplates, visualizers, createdCanvases,
    dom, pendingFrames, nextFrameId, pendingBuffers, runCount, audioGraph,
    localAudioContext, canvasOnclick, previouslySelectedVisualizerName,
    selectValue, wordInput, typewriterTimeoutId, typewriter, now, lastReset,
    atCallback, dataset, zoomPan, zoomListeners>>

InstRender(name, w) ==
  /\ runCount < MaxRuns
  /\ nextFrameId <= MaxFrameId
  /\ Observed(Called(render([Cur EXCEPT !.h = NoHandler], name, w, TRUE),
                     "render", name, [w |-> w], getState(Cur, name)))

InstRedraw(name) ==
  Observed(Called(redraw([Cur EXCEPT !.h = NoHandler], name),
                  "redraw", name, EmptyMap, getState(Cur, name)))

InstRemove(id) ==
  /\ getElementById(Cur, id) # 0
  /\ Become(Called(removeElement(Cur, id), "remove", id, EmptyMap, Undefined))

\* the browser runs a pending animation-frame callback
InstFrame(c) ==
  /\ c \in pendingFrames
  /\ nextFrameId <= MaxFrameId
  /\ LET S == [Cur EXCEPT !.frames = @ \ {c}]
     IN Become(Called(CASE c.key = "spiral" -> animateSpiral(S, c.w, c.run)
                        [] c.key = "tree" -> animateTree(S, c.w, c.run),
                      "frame", c.key, EmptyMap, Undefined))

InitInst == Starts(LoadedWithFaulty)

NextInst ==
  \/ \E name \in InstKeys, w \in WordIds : InstRender(name, w)
  \/ \E name \in InstKeys : InstRedraw(name)
  \/ \E id \in InstRemovable : InstRemove(id)
  \/ \E c \in pendingFrames : InstFrame(c)

SpecInst == InitInst /\ [][NextInst]_vars

(***************************************************************************)
(* The transform reader: the fields of a canvas's dataset are written      *)
(* with numbers (NaN and Infinity included) and strings, and               *)
(* getCanvasTransform reads them back, also for an id without canvas.      *)
(***************************************************************************)
TransformFields == {"scale", "offsetX", "offsetY"}
TransformCanvasIds == {"spiral", "missing"}
TransformValues ==
  {Whole(2), Whole(50), Whole(-30), Whole(0), Fin(1, 5), NaN, Infinity(1),
   JStr(<<>>), JStr(Chars(<<"a", "b", "c">>)),
   JStr(ToText(Whole(12)) \o Chars(<<"p", "x">>))}

TransformWrite(canvasId, field, value) ==
  /\ getElementById(Cur, canvasId) # 0
  /\ Become(Called(SetDataset(Cur, canvasId, field, value),
                   "write", canvasId, EmptyMap, Undefined))

\* the caller keeps what getCanvasTransform returned
TransformRead(canvasId) ==
  Become(Called(Cur, "read", canvasId, EmptyMap,
                getCanvasTransform(Cur, canvasId)))

NextTransform ==
  \/ \E canvasId \in TransformCanvasIds, field \in TransformFields,
        value \in TransformValues : TransformWrite(canvasId, field, value)
  \/ \E canvasId \in TransformCanvasIds : TransformRead(canvasId)

SpecTransform == Init /\ [][NextTransform]_vars

(***************************************************************************)
(* Zoom and pan of one canvas: the wheel, the frames of the zoom animation *)
(* and the pointer events, applied to the closure setupCanvasZoomPan made  *)
(* for the canvas.  A session starts from a transform the closure can      *)
(* hold at rest: the initial one, a scale at which an animation came to    *)
(* rest on a clamp, offsets left by a drag.  The log carries where the     *)
(* pointer is, whether the last button event was a mousedown, and the      *)
(* number of mousedowns.                                                   *)
(***************************************************************************)
MaxDrags == 1

ZoomScales == {minScale, Whole(1), maxScale}
ZoomOffsets == {<<Whole(0), Whole(0)>>, <<Whole(50), Whole(-30)>>}
PointerPositions == {<<Whole(100), Whole(100)>>, <<Whole(130), Whole(80)>>}

AtRest(scale, offset) ==
  LET z == [InitialZoomPan EXCEPT !.scale = scale, !.targetScale = scale,
                                  !.offsetX = offset[1], !.targetOffsetX = offset[1],
                                  !.offsetY = offset[2], !.targetOffsetY = offset[2]]
      S == [Loaded EXCEPT !.zoom = z]
  IN IF z = InitialZoomPan THEN S ELSE WriteTransform(S)

PointerEvent(S, op, p, zoomIn, held, drags) ==
  Called(S, op, ZoomCanvas,
         [x |-> p[1], y |-> p[2], zoomIn |-> zoomIn, held |-> held,
          drags |-> drags],
         Undefined)

Handling == [Cur EXCEPT !.h = NoHandler]

\* the wheel turns where the pointer is; the canvas's bounding rectangle
\* starts at the origin of the viewport
ZoomWheel(zoomIn) ==
  /\ nextFrameId <= MaxFrameId
  /\ Observed(PointerEvent(wheel(Handling, zoomIn, log.arg.x, log.arg.y),
                           "wheel", <<log.arg.x, log.arg.y>>, zoomIn,
                           log.arg.held, log.arg.drags))

\* the browser runs the pending frame of the zoom animation
ZoomFrame(c) ==
  /\ c \in pendingFrames
  /\ c.key = "zoom"
  /\ nextFrameId <= MaxFrameId
  /\ Observed(PointerEvent(animateZoom([Handling EXCEPT !.frames = @ \ {c}]),
                           "animateZoom", <<log.arg.x, log.arg.y>>, FALSE,
                           log.arg.held, log.arg.drags))

ZoomMouseDown(p) ==
  /\ log.arg.drags < MaxDrags
  /\ Observed(PointerEvent(mousedown(Handling, p[1], p[2]), "mousedown", p,
                           FALSE, TRUE, log.arg.drags + 1))

ZoomMouseMove(p) ==
  Observed(PointerEvent(mousemove(Handling, p[1], p[2]), "mousemove", p,
                        FALSE, log.arg.held, log.arg.drags))

ZoomMouseUp ==
  Observed(PointerEvent(mouseup(Handling), "mouseup",
                        <<log.arg.x, log.arg.y>>, FALSE, FALSE,
                        log.arg.drags))

ZoomMouseLeave ==
  Observed(PointerEvent(mouseleave(Handling), "mouseleave",
                        <<log.arg.x, log.arg.y>>, FALSE, FALSE,
                        log.arg.drags))

InitZoom ==
  \E scale \in ZoomScales, offset \in ZoomOffsets, p \in PointerPositions :
    Starts(PointerEvent(AtRest(scale, offset), "load", p, FALSE, FALSE, 0))

NextZoom ==
  \/ \E zoomIn \in BOOLEAN : ZoomWheel(zoomIn)
  \/ \E c \in pendingFrames : ZoomFrame(c)
  \/ \E p \in PointerPositions : ZoomMouseDown(p)
  \/ \E p \in PointerPositions : ZoomMouseMove(p)
  \/ ZoomMouseUp
  \/ ZoomMouseLeave

SpecZoom == InitZoom /\ [][NextZoom]_vars

(***************************************************************************)
(* The spiral canvas with a drawing on it: a word has been typed with the  *)
(* spiral selected, and the pointer zooms and pans the canvas.             *)
(***************************************************************************)
SpiralDrawn(S) ==
  renderSelectedVisualization(
    [S EXCEPT !.sel = "spiral", !.input.value = Len(Words)], TRUE)

InitPaint ==
  \E scale \in ZoomScales, offset \in ZoomOffsets, p \in PointerPositions :
    Starts(PointerEvent(SpiralDrawn(AtRest(scale, offset)), "load", p, FALSE,
                        FALSE, 0))

SpecPaint == InitPaint /\ [][NextZoom]_vars

(***************************************************************************)
(* The operations of one key at a time: render(word) and redraw() of an    *)
(* instance, updateState, resetState and cancelAnimation of the store,     *)
(* stopWaveformVisualization, and the callbacks the renders leave pending. *)
(* The log names the operation and the key it was performed for.           *)
(***************************************************************************)
KeyNames == {"spiral", "waveform"}
KeyWords == WordIds \ {EmptyWord, Len(Words)}

KeyPartial(key) ==
  IF key = "waveform"
  THEN [dualTrigger |-> Bool(TRUE)]
  ELSE [frame |-> Num(1)]

\* the audio context can be created
KeyRender(key, w) ==
  /\ runCount < MaxRuns
  /\ nextFrameId <= MaxFrameId
  /\ Become(Called(render(Cur, key, w, TRUE), "render", key, EmptyMap,
                   Undefined))

KeyRedraw(key) ==
  Become(Called(redraw(Cur, key), "redraw", key, EmptyMap, Undefined))

KeyUpdate(key) ==
  Become(Called(updateState(Cur, key, KeyPartial(key)), "update", key,
                EmptyMap, Undefined))

KeyReset(key) ==
  Become(Called(resetState(Cur, key), "reset", key, EmptyMap, Undefined))

KeyCancel(key) ==
  Become(Called(cancelAnimation(Cur, key), "cancel", key, EmptyMap, Undefined))

KeyStop ==
  Become(Called(stopWaveformVisualization(Cur), "stop", "waveform", EmptyMap,
                Undefined))

KeyFrame(c) ==
  /\ c \in pendingFrames
  /\ nextFrameId <= MaxFrameId
  /\ LET S == [Cur EXCEPT !.frames = @ \ {c}]
     IN Become(Called(CASE c.key = "spiral" -> animateSpiral(S, c.w, c.run)
                        [] c.key = "tree" -> animateTree(S, c.w, c.run)
                        [] c.key = "waveform" ->
                             drawFrame(S, c.w, c.run, c.id, FALSE),
                      "frame", c.key, EmptyMap, Undefined))

KeyBuffersReady(b) ==
  /\ b \in pendingBuffers
  /\ nextFrameId <= MaxFrameId
  /\ Become(Called(buffersReady([Cur EXCEPT !.buffers = @ \ {b}], b.w, b.run),
                   "buffers", "waveform", EmptyMap, Undefined))

NextKeys ==
  \/ \E key \in KeyNames, w \in KeyWords : KeyRender(key, w)
  \/ \E key \in KeyNames : KeyRedraw(key)
  \/ \E key \in KeyNames : KeyUpdate(key)
  \/ \E key \in KeyNames : KeyReset(key)
  \/ \E key \in KeyNames : KeyCancel(key)
  \/ KeyStop
  \/ \E c \in pendingFrames : KeyFrame(c)
  \/ \E b \in pendingBuffers : KeyBuffersReady(b)

SpecKeys == Init /\ [][NextKeys]_vars

(***************************************************************************)
(* Redraws between frames: the spiral and the typography plugin are        *)
(* rendered, their frames run, and redraw() is called at any moment, as    *)
(* the pan/zoom handlers and the resize handler do.                        *)
(***************************************************************************)
TypographyDescriptor ==
  [desc |-> 1, canvasId |-> "typography", containerId |-> "typographyContainer",
   plugin |-> "typography", stateTemplate |-> TypographyTemplate]

LoadedWithTypography ==
  registerVisualizer(Loaded, "typography", TypographyDescriptor)

\* the easing steps explored
MaxEasingSteps == 2

RedrawKeys == {"spiral", "typography"}

RedrawRender(name, w) == InstRender(name, w)

RedrawRedraw(name) ==
  /\ LET characters == Get(getState(Cur, "typography"), "characters")
     IN Truthy(characters) => EasingSteps(characters) < MaxEasingSteps
  /\ InstRedraw(name)

RedrawFrame(c) ==
  /\ c \in pendingFrames
  /\ nextFrameId <= MaxFrameId
  /\ LET S == [Cur EXCEPT !.frames = @ \ {c}]
     IN Become(Called(CASE c.key = "spiral" -> animateSpiral(S, c.w, c.run)
                        [] c.key = "typography" ->
                             animateTypography(S, c.w, c.run),
                      "frame", c.key, EmptyMap, Undefined))

InitRedraw == Starts(LoadedWithTypography)

NextRedraw ==
  \/ \E name \in RedrawKeys, w \in WordIds : RedrawRender(name, w)
  \/ \E name \in RedrawKeys : RedrawRedraw(name)
  \/ \E c \in pendingFrames : RedrawFrame(c)

SpecRedraw == InitRedraw /\ [][NextRedraw]_vars

(***************************************************************************)
(* js/main.js: setupCanvasZoomPan.  The page is loaded with the two        *)
(* ripple visualizers, which share the canvas "ripple"; the listeners are  *)
(* installed, the wheel turns over a canvas, the frames of the zoom        *)
(* animations run and the user changes the selection.                      *)
(***************************************************************************)
Ripple1Template ==
  [layers |-> Null, frame |-> Num(0), colors |-> Null, centerX |-> Num(0),
   centerY |-> Num(0), ringSpacing |-> Num(60), animationId |-> Null]
Ripple2Template ==
  [layers |-> Null, frame |-> Num(0), colors |-> Null, centerX |-> Num(0),
   centerY |-> Num(0), ringSpacing |-> Num(60),
   animationStartTime |-> Num(0), elapsedTime |-> Num(0),
   animationId |-> Null]

Ripple1Descriptor ==
  [desc |-> 1, canvasId |-> "ripple", containerId |-> "rippleContainer",
   plugin |-> "ripple1", stateTemplate |-> Ripple1Template]
Ripple2Descriptor ==
  [desc |-> 1, canvasId |-> "ripple", containerId |-> "rippleContainer",
   plugin |-> "ripple2", stateTemplate |-> Ripple2Template]

LoadedWithRipples ==
  registerVisualizer(registerVisualizer(Loaded, "ripple1", Ripple1Descriptor),
                     "ripple2", Ripple2Descriptor)

\* Object.values(visualizers).map(visualizer => visualizer.canvasId)
getAllCanvasIds(S) ==
  LET registered == SelectSeq(VisualizerOrder, LAMBDA name : HasVisualizer(S, name))
  IN [i \in 1..Len(registered) |-> S.reg[registered[i]].canvasId]

\* canvasIds.forEach(canvasId => { ... }): every entry whose canvas exists
\* gets its own variables and its own wheel and mouse listeners
setupCanvasZoomPan(S) ==
  LET canvasIds == SelectSeq(getAllCanvasIds(S),
                             LAMBDA id : getElementById(S, id) # 0)
  IN [S EXCEPT !.zl = [i \in 1..Len(canvasIds) |->
                         [InitialZoomPan EXCEPT !.canvasId = canvasIds[i]]]]

\* a listener of the i-th closure runs on that closure's variables
WithClosure(S, i, Listener(_)) ==
  LET T == Listener([S EXCEPT !.zoom = S.zl[i]])
  IN [T EXCEPT !.zl = [S.zl EXCEPT ![i] = T.zoom], !.zoom = S.zoom]

\* the browser calls the wheel listeners of the canvas in the order in which
\* they were added
RECURSIVE dispatchWheel(_, _, _, _, _, _)
dispatchWheel(S, canvasId, i, deltaYNegative, mouseX, mouseY) ==
  IF i > Len(S.zl) THEN S
  ELSE dispatchWheel(
         IF S.zl[i].canvasId = canvasId
         THEN WithClosure(S, i, LAMBDA T : wheel(T, deltaYNegative, mouseX, mouseY))
         ELSE S,
         canvasId, i + 1, deltaYNegative, mouseX, mouseY)

\* the closure whose animateZoom a pending frame is
ClosureOf(S, c) ==
  CHOOSE i \in 1..Len(S.zl) : S.zl[i].zoomAnimationId = Num(c.id)

SetupCanvases == {"spiral", "ripple"}

SetupWheel(canvasId, zoomIn, p) ==
  /\ nextFrameId <= MaxFrameId
  /\ Observed(Called(dispatchWheel(Handling, canvasId, 1, zoomIn, p[1], p[2]),
                     "wheel", canvasId, [zoomIn |-> zoomIn], Undefined))

SetupFrame(c) ==
  /\ c \in pendingFrames
  /\ c.key = "zoom"
  /\ nextFrameId <= MaxFrameId
  /\ LET S == [Handling EXCEPT !.frames = @ \ {c}]
         i == ClosureOf(S, c)
     IN Observed(Called(WithClosure(S, i, animateZoom), "animateZoom",
                        S.zl[i].canvasId, [closure |-> i], Undefined))

SetupSelect(choice) ==
  /\ choice \in DOMAIN visualizers
  /\ choice # selectValue
  /\ Observed(Called(renderSelectedVisualization(
                       [Handling EXCEPT !.sel = choice], TRUE),
                     "change", choice, EmptyMap, Undefined))

InitSetup == Starts(setupCanvasZoomPan(LoadedWithRipples))

NextSetup ==
  \/ \E canvasId \in SetupCanvases, zoomIn \in BOOLEAN, p \in PointerPositions :
       SetupWheel(canvasId, zoomIn, p)
  \/ \E c \in pendingFrames : SetupFrame(c)
  \/ \E choice \in DOMAIN visualizers : SetupSelect(choice)

SpecSetup == InitSetup /\ [][NextSetup]_vars

(***************************************************************************)
(* The steps of render(word): the spiral and the waveform are rendered,    *)
(* the calls each render makes are kept, and the frames and the buffer     *)
(* callbacks run in between.                                               *)
(***************************************************************************)
OrderRender(key, w) ==
  /\ runCount < MaxRuns
  /\ nextFrameId <= MaxFrameId
  /\ Observed(Called(render(Handling, key, w, TRUE), "render", key,
                     [w |-> w], Undefined))

OrderFrame(c) ==
  /\ c \in pendingFrames
  /\ nextFrameId <= MaxFrameId
  /\ LET S == [Cur EXCEPT !.frames = @ \ {c}]
     IN Become(Called(CASE c.key = "spiral" -> animateSpiral(S, c.w, c.run)
                        [] c.key = "waveform" ->
                             drawFrame(S, c.w, c.run, c.id, FALSE),
                      "frame", c.key, EmptyMap, Undefined))

OrderBuffersReady(b) ==
  /\ b \in pendingBuffers
  /\ nextFrameId <= MaxFrameId
  /\ Become(Called(buffersReady([Cur EXCEPT !.buffers = @ \ {b}], b.w, b.run),
                   "buffers", "waveform", EmptyMap, Undefined))

NextOrder ==
  \/ \E key \in KeyNames, w \in WordIds : OrderRender(key, w)
  \/ \E c \in pendingFrames : OrderFrame(c)
  \/ \E b \in pendingBuffers : OrderBuffersReady(b)

SpecOrder == Init /\ [][NextOrder]_vars

(***************************************************************************)
(* A finite animation from its start to its end: the spiral is rendered    *)
(* and every frame it schedules runs, the last one included.  The number   *)
(* of frames is bounded by the number of renders.                          *)
(***************************************************************************)
FiniteRender(w) ==
  /\ runCount < MaxRuns
  /\ Become(Called(render(Cur, "spiral", w, TRUE), "render", "spiral",
                   [w |-> w], Undefined))

FiniteFrame(c) ==
  /\ c \in pendingFrames
  /\ c.key = "spiral"
  /\ Become(Called(animateSpiral([Cur EXCEPT !.frames = @ \ {c}], c.w, c.run),
                   "frame", c.key, [frame |-> c.id], Undefined))

NextFinite ==
  \/ \E w \in WordIds : FiniteRender(w)
  \/ \E c \in pendingFrames : FiniteFrame(c)

SpecFinite == Init /\ [][NextFinite]_vars

(***************************************************************************)
(* The modules of the page are loaded: each registers its visualizer once, *)
(* in the order in which the imports are resolved, on top of the records   *)
(* state.js starts with.                                                   *)
(***************************************************************************)
FractalTemplate ==
  [branches |-> Null, colors |-> Null, frame |-> Num(0), centerX |-> Num(0),
   centerY |-> Num(0), season |-> InitialVisualizationState.fractal.season,
   groundElements |-> Null, groundElementsPositions |-> Null,
   totalBranches |-> Num(0), animationId |-> Null]

ConstellationTemplate ==
  [stars |-> Null, connections |-> Null, colors |-> Null, centerX |-> Num(0),
   centerY |-> Num(0),
   twinkleSpeed |-> InitialVisualizationState.constellation.twinkleSpeed,
   frame |-> Num(0), animationStartTime |-> Num(0), elapsedTime |-> Num(0),
   hoveredConstellation |-> Null, backgroundStars |-> Null,
   animationId |-> Null]

\* the descriptor each module passes to registerVisualizer
ModuleDescriptor ==
  [tree |-> TreeDescriptor, spiral |-> SpiralDescriptor,
   waveform |-> WaveformDescriptor,
   fractal |-> [desc |-> 1, canvasId |-> "", containerId |-> "",
                plugin |-> "fractal", stateTemplate |-> FractalTemplate],
   constellation |-> [desc |-> 1, canvasId |-> "", containerId |-> "",
                      plugin |-> "constellation",
                      stateTemplate |-> ConstellationTemplate]]

LoadModule(name) ==
  /\ ~HasVisualizer(Cur, name)
  /\ Become(Called(registerVisualizer(Cur, name, ModuleDescriptor[name]),
                   "register", name, EmptyMap, Undefined))

NextLoad == \E name \in DOMAIN ModuleDescriptor : LoadModule(name)

SpecLoad == InitReg /\ [][NextLoad]_vars

(***************************************************************************)
(* A zoom animation from the wheel event to its last frame.  The wheel     *)
(* turns where the clamp of the scale leaves the target within a few       *)
(* frames of the transform, so that the exact numbers stay small; the      *)
(* browser runs every pending frame.                                       *)
(***************************************************************************)
SettleScales == {Fin(4999, 1000), Fin(9997, 2000), maxScale, minScale}

\* the largest change of scale the wheel asks for here
SettleReach == Fin(1, 500)

SettleWheel(zoomIn) ==
  /\ nextFrameId <= MaxFrameId
  /\ LET S == wheel(Handling, zoomIn, log.arg.x, log.arg.y)
     IN /\ Less(MathAbs(Minus(S.zoom.targetScale, S.zoom.scale)), SettleReach)
        /\ Observed(Called(S, "wheel", ZoomCanvas,
                           [x |-> log.arg.x, y |-> log.arg.y], Undefined))

\* what a step that runs the pending frame c leaves in log
SettleLog(c) ==
  [op |-> "animateZoom", key |-> ZoomCanvas,
   arg |-> [x |-> log.arg.x, y |-> log.arg.y, frame |-> c.id],
   prior |-> Undefined]

SettleFrame(c) ==
  /\ c \in pendingFrames
  /\ c.key = "zoom"
  /\ Observed([animateZoom([Handling EXCEPT !.frames = @ \ {c}])
                 EXCEPT !.log = SettleLog(c)])

InitSettle ==
  \E scale \in SettleScales, offset \in ZoomOffsets, p \in PointerPositions :
    Starts(PointerEvent(AtRest(scale, offset), "load", p, FALSE, FALSE, 0))

NextSettle ==
  \/ \E zoomIn \in BOOLEAN : SettleWheel(zoomIn)
  \/ \E c \in pendingFrames : SettleFrame(c)

\* the browser runs a pending frame: the steps of SettleFrame, and only
\* they, leave the log of a frame that was pending
FrameRuns == \E c \in pendingFrames : c.key = "zoom" /\ log' = SettleLog(c)

\* requestAnimationFrame: a callback that is pending is run
SpecSettle == InitSettle /\ [][NextSettle]_vars /\ WF_log(FrameRuns)

(***************************************************************************)
(* The layer generator on its own: generatePhoneticLayers(word, maxLayers) *)
(* is called with words of lower-case and upper-case letters and a digit,  *)
(* the empty word and "cat" among them, and the caller keeps the result.   *)
(***************************************************************************)
MaxDepth == 3

LayerAlphabet == {"c", "a", "t", "W", "A", "1"}
LayerWords ==
  {<<>>, <<"c", "a", "t">>}
    \cup {<<c>> : c \in LayerAlphabet}
    \cup {<<c, d>> : c \in LayerAlphabet, d \in LayerAlphabet}

LayersCall(word, maxLayers) ==
  Become(Called(Cur, "generatePhoneticLayers", "",
                [word |-> word, maxLayers |-> maxLayers],
                generatePhoneticLayers(word, maxLayers)))

NextLayers ==
  \E word \in LayerWords, maxLayers \in 0..MaxDepth :
    LayersCall(word, maxLayers)

SpecLayers == Init /\ [][NextLayers]_vars

(***************************************************************************)
(* The page with stopWaveformVisualization called at any moment, as the    *)
(* orchestrator may when it switches away: before any render, while the    *)
(* sound buffers are being built, while playing, twice in a row.           *)
(***************************************************************************)
StopWaveform ==
  Become(Called(stopWaveformVisualization(Cur), "stop", "waveform", EmptyMap,
                Undefined))

NextStop ==
  \/ \E choice \in {"tree", "waveform"}, audioOk \in BOOLEAN :
       SelectChange(choice, audioOk)
  \/ \E w \in WordIds, audioOk \in BOOLEAN : InputWord(w, audioOk)
  \/ \E c \in pendingFrames, ding \in BOOLEAN : FrameFire(c, ding)
  \/ \E b \in pendingBuffers : BuffersReady(b)
  \/ ClickPlay
  \/ StopWaveform

SpecStop == Init /\ [][NextStop]_vars

(***************************************************************************)
(* The page with the caption timers: the events that render, render(word)  *)
(* called on an instance directly, and the timers of the typewriter.       *)
(* Animation frames, sound-buffer completions and clicks on the waveform   *)
(* canvas neither read nor write the caption.                              *)
(***************************************************************************)
NextCaption ==
  \/ \E choice \in {"spiral", "tree", "waveform"}, audioOk \in BOOLEAN :
       SelectChange(choice, audioOk)
  \/ \E w \in WordIds, audioOk \in BOOLEAN : InputWord(w, audioOk)
  \/ \E name \in {"spiral", "tree"}, w \in WordIds : InstRender(name, w)
  \/ \E t \in typewriter.timers : TypewriterTimer(t)

SpecCaption == Init /\ [][NextCaption]_vars

(***************************************************************************)
(* Properties.                                                             *)
(***************************************************************************)
PendingFor(key) == {c \in pendingFrames : c.key = key}

\* C1: for every registered key at most one animation-frame callback is
\* pending at any time, whatever the interleaving of renders, frames and
\* sound-buffer completions.
C1_AtMostOnePendingFramePerKey ==
  \A key \in DOMAIN visualizers : Cardinality(PendingFor(key)) <= 1

\* C2: once the selection has switched to a key, no animation-frame callback
\* of another key is pending (so none can fire later): the only loop is the
\* selected key's.
C2_OnlySelectedKeyHasPendingFrame ==
  \A c \in pendingFrames : c.key = selectValue

\* C3: when render calls renderFunction, the key's record is a copy of the
\* key's template (the waveform's carried-over audioContext apart):
\* animationId null, frame counter and every other field at its default.
C3_FreshTemplateAtCallback ==
  atCallback.key # "" =>
    LET template == visualizerTemplates[atCallback.key]
    IN /\ DOMAIN atCallback.state = DOMAIN template
       /\ \A f \in DOMAIN template :
            (atCallback.key = "waveform" /\ f = "audioContext")
              \/ atCallback.state[f] = template[f]

\* C4: after resetState(key) of a key with a registered template, the fields
\* of the record are exactly the fields of the template, whatever fields the
\* record had before.
C4_ResetKeySetIsTemplateKeySet ==
  lastReset.key \in DOMAIN visualizerTemplates =>
    DOMAIN lastReset.after = DOMAIN visualizerTemplates[lastReset.key]

\* a reset of the waveform record that held a field its template lacks
C4_Witness ==
  /\ lastReset.key = "waveform"
  /\ "elapsedTime" \in lastReset.priorFields
  /\ "elapsedTime" \notin DOMAIN lastReset.after

C6_ResetFieldsAreTemplateDefaults ==
  lastReset.key = "waveform" =>
    \A f \in DOMAIN waveformStateTemplate \ {"audioContext"} :
      Get(lastReset.after, f) = waveformStateTemplate[f]

\* C7: cancelAnimation(key) on a record with a non-null animationId cancels
\* the callback with that handle and no other, and sets animationId to null;
\* on a record whose animationId is null (a second call included), or without
\* a record, it cancels nothing and changes nothing; no other field and no
\* other record changes.
C7_CancelAnimation ==
  [][log'.op = "cancel" =>
       IF log'.prior # Undefined /\ Get(log'.prior, "animationId") # Null
       THEN /\ pendingFrames' =
                 {c \in pendingFrames : c.id # log'.prior.animationId.n}
            /\ visualizationState' =
                 [visualizationState EXCEPT ![log'.key] =
                    [f \in DOMAIN log'.prior |->
                       IF f = "animationId" THEN Null ELSE log'.prior[f]]]
       ELSE /\ pendingFrames' = pendingFrames
            /\ visualizationState' = visualizationState]_vars

\* cancelAnimation has run on a record that held a handle
C7_Witness ==
  /\ log.op = "cancel"
  /\ log.prior # Undefined
  /\ Get(log.prior, "animationId") # Null
  /\ visualizationState[log.key].animationId = Null

UnknownKey(key) ==
  key \notin DOMAIN visualizationState /\ key \notin DOMAIN visualizerTemplates

\* C8: updateState, resetState and cancelAnimation on a key with neither a
\* record nor a template change no record, create none and cancel nothing;
\* getState on such a key returns undefined.
C8_UnknownKeyIsNoOp ==
  /\ [][(log'.op \in {"update", "reset", "cancel"} /\ UnknownKey(log'.key)) =>
          /\ visualizationState' = visualizationState
          /\ visualizerTemplates' = visualizerTemplates
          /\ pendingFrames' = pendingFrames]_vars
  /\ []((log.op = "get" /\ UnknownKey(log.key)) => log.prior = Undefined)

\* updateState has run on a key that is still without a record
C8_Witness ==
  /\ log.op = "update"
  /\ log.key = "ghost"
  /\ UnknownKey("ghost")

\* C9: updateState(key, partial) on a known key: every field of partial has
\* the new value, every other field its previous value.
C9_UpdateMerges ==
  (log.op = "update" /\ log.prior # Undefined) =>
    LET record == visualizationState[log.key]
    IN /\ DOMAIN record = (DOMAIN log.prior) \cup (DOMAIN log.arg)
       /\ \A f \in DOMAIN log.arg : record[f] = log.arg[f]
       /\ \A f \in (DOMAIN log.prior) \ (DOMAIN log.arg) :
            record[f] = log.prior[f]

\* updateState has overwritten a field and kept another that was not at its
\* initial value
C9_Witness ==
  /\ log.op = "update"
  /\ log.prior # Undefined
  /\ \E f \in (DOMAIN log.arg) \cap (DOMAIN log.prior) :
       log.prior[f] # log.arg[f]
  /\ \E f \in (DOMAIN log.prior) \ (DOMAIN log.arg) :
       /\ f \in DOMAIN InitialVisualizationState[log.key]
       /\ log.prior[f] # InitialVisualizationState[log.key][f]

\* C10: no two elements of the document share an id (so there is at most one
\* container per containerId and one canvas per canvasId); a registration
\* whose container and canvas exist already creates no element and leaves
\* every element as it is; getVisualizer(key) is the instance of the latest
\* descriptor registered under key.
C10_RegisterReusesElements ==
  /\ [](\A i, j \in 1..Len(dom) : dom[i].id = dom[j].id => i = j)
  /\ [](log.op = "register" =>
          /\ HasVisualizer(Cur, log.key)
          /\ visualizers[log.key].desc = log.arg.desc
          /\ visualizers[log.key].canvasId =
               IF log.arg.canvasId = "" THEN DefaultCanvasId[log.key]
               ELSE log.arg.canvasId
          /\ visualizers[log.key].containerId =
               IF log.arg.containerId = "" THEN DefaultContainerId[log.key]
               ELSE log.arg.containerId)
  /\ [][(log'.op = "register" /\ log'.prior = Bool(TRUE)
         /\ visualizers'[log'.key].canvasId = visualizers[log'.key].canvasId
         /\ visualizers'[log'.key].containerId =
              visualizers[log'.key].containerId) => dom' = dom]_vars

\* a key registered a second time, with another descriptor and the same ids
C10_Witness ==
  /\ log.op = "register"
  /\ log.prior = Bool(TRUE)
  /\ log.arg.desc = 2
  /\ log.arg.canvasId = ""
  /\ Len(dom) > Len(StaticDom)

\* C11: after registerVisualizer(key, descriptor) a canvas with the
\* descriptor's canvasId exists, and its parent is the container with the
\* descriptor's containerId.
C11_CanvasInsideContainer ==
  log.op = "register" =>
    LET instance == visualizers[log.key]
        canvas == getElementById(Cur, instance.canvasId)
        container == getElementById(Cur, instance.containerId)
    IN /\ canvas # 0
       /\ container # 0
       /\ dom[canvas].tag = "canvas"
       /\ dom[canvas].parent = container

\* C20: a waveform animation frame runs (and so a sound trigger can fire)
\* only when no waveform render is still waiting for its sound buffers: from
\* the start of a render until its completion callback no waveform frame
\* runs.
C20_NoWaveformFrameBeforeBuffersReady ==
  [][(\E c \in pendingFrames, ding \in BOOLEAN :
        c.key = "waveform" /\ FrameFire(c, ding)) => pendingBuffers = {}]_vars

\* C19: at most one caption timer is pending; typewriterTimeoutId is null
\* exactly when none is pending, and otherwise is the handle of the pending
\* one; the pending timer belongs to the latest animateTypewriter call, the
\* timer of the run before having been cancelled.
C19_OneCaptionTimer ==
  /\ Cardinality(typewriter.timers) <= 1
  /\ (typewriterTimeoutId = Null) <=> (typewriter.timers = {})
  /\ \A t \in typewriter.timers :
       /\ typewriterTimeoutId = Num(t.id)
       /\ t.text = typewriter.text

\* a render has cancelled the pending timer of the run before, and its own
\* timer is pending
C19_Witness ==
  /\ typewriter.cancelled > 0
  /\ runCount = 2
  /\ \E t \in typewriter.timers : t.currentChar = 1

\* what render and redraw may call without an effect on the page
Logging == {"console.error"}

CallsOf(h) == {h.calls[i] : i \in 1..Len(h.calls)}

\* C12: render(word) with the empty word changes nothing: no element is
\* shown, the caption and its timer are as before, no animation frame is
\* cancelled, no record changes, and neither the layer generator, the caption
\* animator, cancel, reset nor the render callback is called.
C12_EmptyWordRenderIsNoOp ==
  [][(log'.op = "render" /\ log'.arg.w = EmptyWord) =>
       /\ UNCHANGED pageVars
       /\ CallsOf(handler') \subseteq Logging]_vars

\* render with the empty word on a key whose animation and whose caption
\* timer are pending
C12_Witness ==
  /\ log.op = "render"
  /\ log.arg.w = EmptyWord
  /\ visualizationState[log.key].animationId # Null
  /\ typewriterTimeoutId # Null
  /\ \E i \in 1..Len(dom) : dom[i].display = "block"

\* a render of key with a word that is not empty, when its container and
\* its canvas are in the document, reaches the render callback
RenderReachesCallback ==
  (/\ log.op = "render"
   /\ log.arg.w # EmptyWord
   /\ getElementById(Cur, visualizers[log.key].containerId) # 0
   /\ getElementById(Cur, visualizers[log.key].canvasId) # 0)
    => (/\ "renderFunction" \in CallsOf(handler)
        /\ atCallback.key = log.key)

\* C13: an exception of a render or redraw callback does not leave render()
\* or redraw(); the call changes no record of another key; and any instance
\* whose elements exist is rendered up to its callback afterwards.
C13_CallbackExceptionIsContained ==
  /\ [](log.op \in {"render", "redraw"} => ~handler.thrown)
  /\ [][log'.op \in {"render", "redraw"} =>
          \A key \in DOMAIN visualizationState :
            key # log'.key =>
              /\ key \in DOMAIN visualizationState'
              /\ visualizationState'[key] = visualizationState[key]]_vars
  /\ []((visualizationState["faulty"].frame = Num(1)) => RenderReachesCallback)

\* the spiral is rendered up to its callback after the faulty plugin threw
C13_Witness ==
  /\ visualizationState["faulty"].frame = Num(1)
  /\ log.op = "render"
  /\ log.key = "spiral"
  /\ "renderFunction" \in CallsOf(handler)
  /\ ~handler.thrown

\* the container or the canvas of key is not in the document
ElementMissing(key) ==
  \/ getElementById(Cur, visualizers[key].containerId) = 0
  \/ getElementById(Cur, visualizers[key].canvasId) = 0

\* C14: render(word) of a key whose container or canvas is missing calls
\* neither the layer generator, the caption animator, cancel, reset nor the
\* render callback, and leaves every record, every pending animation frame
\* and the caption as they were; the instances whose elements exist are
\* rendered up to their callback.
C14_MissingElementAbortsRender ==
  /\ [][(log'.op = "render" /\ log'.arg.w # EmptyWord
         /\ ElementMissing(log'.key)) =>
          /\ CallsOf(handler') \subseteq Logging
          /\ UNCHANGED <<visualizationState, pendingFrames, nextFrameId,
                         typewriter, typewriterTimeoutId, atCallback,
                         lastReset, runCount>>]_vars
  /\ []((\E key \in DOMAIN visualizers : ElementMissing(key))
          => RenderReachesCallback)

\* render of the spiral, whose animation is pending and whose canvas is
\* missing
C14_Witness ==
  /\ log.op = "render"
  /\ log.key = "spiral"
  /\ log.arg.w # EmptyWord
  /\ getElementById(Cur, "spiral") = 0
  /\ visualizationState["spiral"].animationId # Null
  /\ \E c \in pendingFrames : c.key = "spiral"

\* a value that holds no numeral: NaN, or a string without a digit
NonNumeric(v) ==
  v.t = "nan" \/ (v.t = "str" /\ \A i \in 1..Len(v.s) : ~v.s[i].num)

\* C15: getCanvasTransform(id) returns, field by field, the number last
\* written to the canvas's dataset; the field's default (1, 0, 0) when the
\* field was never written or holds NaN or a string without a number; the
\* defaults for an id without canvas; and NaN in no field.
C15_TransformReadsBack ==
  log.op = "read" =>
    IF getElementById(Cur, log.key) = 0 THEN log.prior = DefaultTransform
    ELSE \A f \in TransformFields :
           /\ ~isNaN(log.prior[f])
           /\ ~HasDataset(Cur, log.key, f) => log.prior[f] = DefaultTransform[f]
           /\ HasDataset(Cur, log.key, f) =>
                LET v == dataset[log.key][f].value
                IN /\ v.t \in {"fin", "inf"} => log.prior[f] = v
                   /\ NonNumeric(v) => log.prior[f] = DefaultTransform[f]

\* scale 2 and offsetX 50 are read back while offsetY, written NaN, reads 0
C15_Witness ==
  /\ log.op = "read"
  /\ log.key = "spiral"
  /\ HasDataset(Cur, "spiral", "offsetY")
  /\ dataset["spiral"]["offsetY"].value = NaN
  /\ log.prior = [scale |-> Whole(2), offsetX |-> Whole(50),
                  offsetY |-> Whole(0)]


\* the scale and offsets a closure holds, and those written on the canvas
ClosureTransform(z) ==
  [scale |-> z.scale, offsetX |-> z.offsetX, offsetY |-> z.offsetY]
WrittenTransform(ds) ==
  [f \in {"scale", "offsetX", "offsetY"} |-> ds[ZoomCanvas][f].value]

\* C16: a wheel event at (mouseX, mouseY) sets the targets so that the world
\* point under the pointer, worldX = (mouseX - offsetX) / scale computed
\* from the transform at the event, is drawn at the pointer again:
\* worldX * targetScale + targetOffsetX = mouseX, and the same for Y, also
\* when the target scale was clamped.
C16_WheelKeepsPointUnderCursor ==
  [][log'.op = "wheel" =>
       LET worldX == Over(Minus(log'.arg.x, zoomPan.offsetX), zoomPan.scale)
           worldY == Over(Minus(log'.arg.y, zoomPan.offsetY), zoomPan.scale)
       IN /\ Plus(Times(worldX, zoomPan'.targetScale), zoomPan'.targetOffsetX)
               = log'.arg.x
          /\ Plus(Times(worldY, zoomPan'.targetScale), zoomPan'.targetOffsetY)
               = log'.arg.y]_vars

\* a wheel-in at a scale just below the largest, with offsets that are not
\* zero: the target scale is the clamp, not the scale times 1.1
C16_Witness ==
  /\ log.op = "wheel"
  /\ log.arg.zoomIn
  /\ Less(zoomPan.scale, maxScale)
  /\ Less(maxScale, Times(zoomPan.scale, Plus(Whole(1), zoomIntensity)))
  /\ zoomPan.targetScale = maxScale
  /\ zoomPan.offsetX # Whole(0)
  /\ zoomPan.targetOffsetX # zoomPan.offsetX

\* C17: whatever wheel, drag and zoom-frame events have happened, the scale
\* written on the canvas is a number within [0.2, 5], and so is the scale
\* getCanvasTransform reads.
C17_WrittenScaleWithinLimits ==
  /\ HasDataset(Cur, ZoomCanvas, "scale") =>
       LET written == dataset[ZoomCanvas]["scale"].value
       IN /\ written.t = "fin"
          /\ ~Less(written, minScale)
          /\ ~Less(maxScale, written)
  /\ LET read == getCanvasTransform(Cur, ZoomCanvas).scale
     IN ~Less(read, minScale) /\ ~Less(maxScale, read)

\* a frame of the animation has written a scale strictly between the scale
\* the session started from and a target the wheel set
C17_Witness ==
  /\ log.op = "animateZoom"
  /\ HasDataset(Cur, ZoomCanvas, "scale")
  /\ dataset[ZoomCanvas]["scale"].value = zoomPan.scale
  /\ zoomPan.scale # zoomPan.targetScale
  /\ Less(Whole(4), zoomPan.scale)

\* C18: a pointer move between a mousedown and the next mouseup or
\* mouseleave adds exactly the pointer's delta to the offsets, keeps the
\* scale, writes scale and offsets on the canvas and calls redraw(); a move
\* at any other time changes neither the transform nor what is written, and
\* calls no redraw.
C18_MoveTranslatesOnlyDuringDrag ==
  [][log'.op = "mousemove" =>
       IF log.arg.held
       THEN /\ zoomPan'.offsetX
                 = Plus(zoomPan.offsetX, Minus(log'.arg.x, log.arg.x))
            /\ zoomPan'.offsetY
                 = Plus(zoomPan.offsetY, Minus(log'.arg.y, log.arg.y))
            /\ zoomPan'.scale = zoomPan.scale
            /\ HasDataset(Cur, ZoomCanvas, "scale")'
            /\ WrittenTransform(dataset') = ClosureTransform(zoomPan')
            /\ "redraw" \in CallsOf(handler')
       ELSE /\ ClosureTransform(zoomPan') = ClosureTransform(zoomPan)
            /\ dataset' = dataset
            /\ "redraw" \notin CallsOf(handler')]_vars

\* a move during a drag has translated the offsets by a delta that is not
\* zero and the instance's redraw callback has run
C18_Witness ==
  /\ log.op = "mousemove"
  /\ log.arg.held
  /\ zoomPan.isDragging
  /\ zoomPan.offsetX \notin {Whole(0), Whole(50)}
  /\ HasDataset(Cur, ZoomCanvas, "offsetX")
  /\ dataset[ZoomCanvas]["offsetX"].value = zoomPan.offsetX
  /\ "redrawFunction" \in CallsOf(handler)


\* what stopWaveformVisualization is to leave behind
WaveformStopped ==
  /\ HasState(Cur, "waveform")
  /\ Get(visualizationState["waveform"], "isPlaying") = Bool(FALSE)
  /\ Get(visualizationState["waveform"], "animationId") = Null
  /\ Get(visualizationState["waveform"], "audioNodes") = List(0, {})
  /\ \A c \in pendingFrames : c.key # "waveform"
  /\ ~wordInput.disabled

\* C21: whenever stopWaveformVisualization has been called (before any
\* render, while sound buffers are being built, while playing, twice in a
\* row), the waveform record has isPlaying = false, animationId = null and no
\* audio nodes, no waveform animation-frame callback is pending and the word
\* input is enabled.
C21_StopLeavesWaveformStopped ==
  [][StopWaveform => WaveformStopped']_vars


\* C22: as long as creating the audio context has failed (localAudioContext
\* is still null), a waveform render has started nothing: the record's
\* audioContext and animationId are null, no sound-buffer construction is
\* under way and no waveform animation-frame callback is pending.
C22_NoLoopWithoutAudioContext ==
  localAudioContext = Null =>
    /\ Get(visualizationState["waveform"], "audioContext") = Null
    /\ Get(visualizationState["waveform"], "animationId") = Null
    /\ pendingBuffers = {}
    /\ \A c \in pendingFrames : c.key # "waveform"

\* the render callback of the waveform has run for a word and the audio
\* context could not be created
C22_Witness ==
  /\ atCallback.key = "waveform"
  /\ previouslySelectedVisualizerName = "waveform"
  /\ wordInput.value # EmptyWord
  /\ runCount > 0
  /\ localAudioContext = Null


LayersReturned == log.op = "generatePhoneticLayers"

\* C23: generatePhoneticLayers(word, maxDepth) returns at least one layer
\* and at most maxDepth layers; for "cat" and depth 3 it returns three
\* layers, layer 0 to layer 2.
C23_LayerCountWithinDepth ==
  LayersReturned =>
    /\ Len(log.prior) >= 1
    /\ Len(log.prior) <= log.arg.maxLayers
    /\ (log.arg.word = <<"c", "a", "t">> /\ log.arg.maxLayers = 3)
         => Len(log.prior) = 3

\* the phonetic name of a character, or the character itself
NameOf(c) ==
  LET lower == IF c \in DOMAIN UpperCase THEN UpperCase[c] ELSE c
  IN IF lower \in DOMAIN phoneticMap THEN phoneticMap[lower] ELSE <<c>>

\* where the name of the i-th character of `layer` starts in the next layer
RECURSIVE NameStart(_, _)
NameStart(layer, i) ==
  IF i = 1 THEN 0 ELSE NameStart(layer, i - 1) + Len(NameOf(layer[i - 1]))

\* C24: layer 0 is the word's characters, and every later layer is the
\* layer before it with each character replaced, in order, by the
\* characters of its phonetic name (letters matched case-insensitively), a
\* character without a name being kept; for "cat", layer 1 is s,e,e,a,y,t,e,e.
C24_LayersSpellOutThePreviousLayer ==
  LayersReturned =>
    LET layers == log.prior
    IN /\ layers[1] = log.arg.word
       /\ \A k \in 1..(Len(layers) - 1) :
            LET prev == layers[k]
                next == layers[k + 1]
            IN /\ Len(next) = NameStart(prev, Len(prev) + 1)
               /\ \A i \in 1..Len(prev) :
                    \A j \in 1..Len(NameOf(prev[i])) :
                      next[NameStart(prev, i) + j] = NameOf(prev[i])[j]
       /\ (log.arg.word = <<"c", "a", "t">> /\ Len(layers) >= 2)
            => layers[2] = <<"s", "e", "e", "a", "y", "t", "e", "e">>

\* a word with an upper-case letter and a digit has been spelled out twice
C24_Witness ==
  /\ LayersReturned
  /\ log.arg.word = <<"W", "1">>
  /\ Len(log.prior) >= 3
  /\ Len(log.prior[2]) = 10
  /\ log.prior[2][10] = "1"


\* the operations a caller performs for one key
KeyOperations == {"render", "redraw", "update", "reset", "cancel", "stop"}

\* the audio context handle is in no record but the waveform's
ContextOnlyInWaveform ==
  \A k \in DOMAIN visualizationState \ {"waveform"} :
    \A f \in DOMAIN visualizationState[k] :
      visualizationState[k][f] # AudioContextHandle

\* C25: render(word), redraw(), updateState, resetState, cancelAnimation and
\* stop performed for one key leave the record of every other key as it was,
\* and the waveform's audioContext handle is never in another key's record.
C25_OperationsTouchOnlyTheirKey ==
  [][/\ log'.op \in KeyOperations =>
          \A k \in DOMAIN visualizationState \ {log'.key} :
            /\ k \in DOMAIN visualizationState'
            /\ visualizationState'[k] = visualizationState[k]
     /\ ContextOnlyInWaveform']_vars

\* the waveform has been reset while it held the audio context and the
\* spiral had a record written by its own render, with a frame pending
C25_Witness ==
  /\ log.op = "reset"
  /\ log.key = "waveform"
  /\ visualizationState["waveform"].audioContext = AudioContextHandle
  /\ visualizationState["spiral"] # visualizerTemplates["spiral"]
  /\ visualizationState["spiral"].animationId # Null

\* C26: a redraw() leaves the record of its key as it was, the positions and
\* rotations nested in it included, and neither schedules nor cancels an
\* animation frame, so that a second redraw() paints what the first painted.
C26_RedrawLeavesRecordAndFrames ==
  [][log'.op = "redraw" =>
       /\ visualizationState' = visualizationState
       /\ pendingFrames' = pendingFrames
       /\ nextFrameId' = nextFrameId]_vars

\* the canvases of the registered visualizers
Surfaces == {visualizers[name].canvasId : name \in DOMAIN visualizers}

\* the frames of the zoom animations pending for a canvas
ZoomFramesOf(canvasId) ==
  {c \in pendingFrames :
     /\ c.key = "zoom"
     /\ \E i \in 1..Len(zoomListeners) :
          /\ zoomListeners[i].canvasId = canvasId
          /\ zoomListeners[i].zoomAnimationId = Num(c.id)}

\* C27: every canvas of a registered visualizer has exactly one set of
\* listeners (one closure), also when several visualizers share the canvas,
\* and at most one frame of a zoom animation is pending for a canvas.
C27_OneListenerSetPerSurface ==
  \A canvasId \in Surfaces :
    /\ Cardinality({i \in 1..Len(zoomListeners) :
                      zoomListeners[i].canvasId = canvasId}) = 1
    /\ Cardinality(ZoomFramesOf(canvasId)) <= 1

\* the registered instances whose canvas is canvasId
InstancesOn(canvasId) ==
  {name \in DOMAIN visualizers : visualizers[name].canvasId = canvasId}

\* name was registered before other
RegisteredBefore(name, other) ==
  \E i, j \in 1..Len(VisualizerOrder) :
    i < j /\ VisualizerOrder[i] = name /\ VisualizerOrder[j] = other

\* C28: the redraw a zoom frame triggers for a canvas goes to exactly one
\* instance: the selected one when its canvas is that canvas, otherwise the
\* first registered instance of that canvas; never to an instance of
\* another canvas.
C28_RedrawGoesToSelectedOrFirstOnSurface ==
  [][log'.op = "animateZoom" =>
       LET canvasId == log'.key
           onSurface == InstancesOn(canvasId)
       IN /\ Len(handler'.redrawn) = 1
          /\ handler'.redrawn[1] \in onSurface
          /\ selectValue \in onSurface => handler'.redrawn[1] = selectValue
          /\ selectValue \notin onSurface =>
               \A other \in onSurface \ {handler'.redrawn[1]} :
                 RegisteredBefore(handler'.redrawn[1], other)]_vars

\* a zoom frame of the shared canvas has redrawn the selected ripple2, which
\* is not the first instance registered for that canvas
C28_Witness ==
  /\ log.op = "animateZoom"
  /\ log.key = "ripple"
  /\ selectValue = "ripple2"
  /\ handler.redrawn = <<"ripple2">>

\* a zoom frame of the shared canvas has redrawn ripple1 while the spiral
\* was selected
C28_WitnessOtherSelected ==
  /\ log.op = "animateZoom"
  /\ log.key = "ripple"
  /\ selectValue = "spiral"
  /\ handler.redrawn = <<"ripple1">>

\* the steps of render(word) the sentence orders
RenderSteps ==
  <<"generatePhoneticLayers", "animateTypewriter", "cancelAnimation",
    "resetState", "renderFunction">>

\* the calls of a handler that are steps of render(word), in their order
StepsOf(h) ==
  SelectSeq(h.calls, LAMBDA fn : \E i \in 1..Len(RenderSteps) : RenderSteps[i] = fn)

\* the step schedules the first frame of a run of the key
FirstFrameOf(c) ==
  /\ c \in pendingFrames' \ pendingFrames
  /\ \A d \in pendingFrames : ~(d.key = c.key /\ d.run = c.run)

\* C29: a render(word) that reaches its callback has generated the layers,
\* restarted the caption, cancelled the key's animation, reset the record and
\* called the render callback, in this order; and when a run schedules its
\* first frame, the frame of every earlier run of that key has been
\* cancelled.
C29_RenderStepsInOrder ==
  [][/\ (log'.op = "render" /\ "renderFunction" \in CallsOf(handler')) =>
          StepsOf(handler') = RenderSteps
     /\ \A c \in pendingFrames' :
          FirstFrameOf(c) =>
            \A d \in pendingFrames' : d.key = c.key => d.run >= c.run]_vars

\* the order of the steps alone
RenderStepsOrdered ==
  [][(log'.op = "render" /\ "renderFunction" \in CallsOf(handler')) =>
       StepsOf(handler') = RenderSteps]_vars

\* C30: between two tasks the animationId of every record is null or the
\* handle of an animation-frame callback that is pending for that key, and
\* so it is null once a finite animation has scheduled its last frame and
\* that frame has run.
C30_AnimationIdIsNullOrPending ==
  \A key \in DOMAIN visualizationState :
    LET animationId == Get(visualizationState[key], "animationId")
    IN Truthy(animationId) =>
         \E c \in pendingFrames : c.key = key /\ Num(c.id) = animationId

\* the record of the key has no field its template does not declare
FieldsDeclared(key) ==
  DOMAIN visualizationState[key] \subseteq DOMAIN visualizerTemplates[key]

\* C31: a record whose fields are all declared in the key's template, as it
\* is from the key's first render on, stays so: no step writes a field the
\* template does not declare.
C31_RecordFieldsDeclaredInTemplate ==
  [][\A key \in DOMAIN visualizers :
       FieldsDeclared(key) => FieldsDeclared(key)']_vars

\* C32: right after a key is registered its record is a copy of the
\* descriptor's stateTemplate, and it stays one while other modules
\* register: the template's fields with the template's values.
C32_RecordIsTemplateAfterRegistration ==
  \A key \in DOMAIN visualizers :
    visualizationState[key] = visualizerTemplates[key]

\* the zoom animation has ended on its targets
ZoomSettled ==
  /\ zoomPan.zoomAnimationId = Null
  /\ \A c \in pendingFrames : c.key # "zoom"
  /\ zoomPan.scale = zoomPan.targetScale
  /\ zoomPan.offsetX = zoomPan.targetOffsetX
  /\ zoomPan.offsetY = zoomPan.targetOffsetY
  /\ HasDataset(Cur, ZoomCanvas, "scale")
  /\ WrittenTransform(dataset) = ClosureTransform(zoomPan)

IsPrefix(p, t) ==
  /\ Len(p) <= Len(t)
  /\ \A i \in 1..Len(p) : p[i] = t[i]

\* C34: the caption is at all times a prefix of the text of the latest
\* animateTypewriter call (and empty after clearVisuals): the timer of an
\* earlier run appends nothing once a newer run has started.
C34_CaptionIsPrefixOfLatestText ==
  IsPrefix(typewriter.content, typewriter.text)

\* a newer run has cancelled the timer of the run before and has typed its
\* second character
C34_Witness ==
  /\ typewriter.cancelled > 0
  /\ Len(typewriter.content) = 2
  /\ typewriter.timers # {}

\* the visualization containers that are shown
VisibleContainers(elements) ==
  {elements[i].id : i \in {j \in 1..Len(elements) :
                             /\ elements[j].cls = "visualization-container"
                             /\ elements[j].display # "none"}}

\* renderSelectedVisualization runs with a registered choice and a word
SelectionRendered ==
  /\ selectValue' \in DOMAIN visualizers
  /\ wordInput'.value # EmptyWord
  /\ \/ \E choice \in DOMAIN visualizers, audioOk \in BOOLEAN :
          SelectChange(choice, audioOk)
     \/ /\ selectValue # ""
        /\ \E w \in WordIds, audioOk \in BOOLEAN : InputWord(w, audioOk)

\* C35: when renderSelectedVisualization has run for a word and a registered
\* choice, the container of the choice is the only visualization container
\* that is shown, whatever was selected before.
C35_OnlyChosenContainerVisible ==
  [][SelectionRendered =>
       VisibleContainers(dom') = {visualizers'[selectValue'].containerId}]_vars

\* the choice is shown after a render of another choice had shown its own
\* container
C35_Witness ==
  /\ runCount = 2
  /\ previouslySelectedVisualizerName = "waveform"
  /\ VisibleContainers(dom) = {"waveformContainer"}
  /\ \E i \in 1..Len(dom) : dom[i].id = "spiral" /\ dom[i].display = "none"

\* the target offsets of the zoom animation are the current offsets
Anchored(z) ==
  /\ z.targetOffsetX = z.offsetX
  /\ z.targetOffsetY = z.offsetY

\* C36: a drag move during a zoom animation is not undone: the move leaves
\* the target offsets equal to the dragged offsets, and from then on no
\* animation frame (nor any event other than a wheel turn or another move)
\* changes offsetX or offsetY.
C36_DragIsNotUndoneByZoomFrames ==
  [][/\ (log'.op = "mousemove" /\ log.arg.held) => Anchored(zoomPan')
     /\ (log'.op \notin {"wheel", "mousemove"} /\ Anchored(zoomPan))
          => /\ zoomPan'.offsetX = zoomPan.offsetX
             /\ zoomPan'.offsetY = zoomPan.offsetY
             /\ Anchored(zoomPan')]_vars

\* a frame of an animation that a wheel turn started before the drag has
\* changed the scale, the animation goes on, and the offsets are the dragged
\* ones
C36_Witness ==
  /\ log.op = "animateZoom"
  /\ log.arg.drags = 1
  /\ zoomPan.scale # zoomPan.targetScale
  /\ zoomPan.zoomAnimationId # Null
  /\ Anchored(zoomPan)
  /\ zoomPan.offsetX \in {Whole(30), Whole(-30), Whole(80), Whole(20)}

\* points of the drawing, in the coordinates of the untransformed canvas
WorldPoints == {<<Whole(0), Whole(0)>>, <<Whole(400), Whole(300)>>}

\* C37: every redraw callback that has just painted maps the point w of the
\* drawing to w * scale + offset, the mapping under which the wheel listener
\* keeps the point under the cursor fixed.
C37_RedrawPaintsScaleThenOffset ==
  \A i \in 1..Len(handler.redrawn) :
    LET name == handler.redrawn[i]
        t == TransformOrDefaults(Cur, TransformCanvas(Cur, name))
    IN PaintsAnything(Cur, name) =>
         \A w \in WorldPoints :
           PaintedAt(Cur, name, w[1], w[2])
             = <<Plus(Times(w[1], t.scale), t.offsetX),
                 Plus(Times(w[2], t.scale), t.offsetY)>>

\* the fields of the waveform record that a completion callback writes from
\* its own render
CompletionFields == {"word", "layers", "soundBuffers"}

\* C38: the completion callback of a waveform render that a later render has
\* superseded writes neither its word nor its layers nor its soundBuffers
\* into the waveform record, and requests no animation frame.
C38_SupersededCompletionWritesNothing ==
  [][\A b \in pendingBuffers :
       (b.run # runCount /\ BuffersReady(b)) =>
         /\ \A f \in CompletionFields :
              Get(visualizationState'["waveform"], f)
                = Get(visualizationState["waveform"], f)
         /\ pendingFrames' \subseteq pendingFrames]_vars

\* C39: the word input is disabled exactly when the waveform record's
\* isPlaying is true, after any sequence of renders, play/pause clicks,
\* stops, selection changes and sound-buffer completions.
C39_InputDisabledIffPlaying ==
  wordInput.disabled
    <=> Truthy(Get(visualizationState["waveform"], "isPlaying"))

\* the waveform is playing and the word input is disabled
C39_Witness ==
  /\ wordInput.disabled
  /\ visualizationState["waveform"].isPlaying = Bool(TRUE)
  /\ selectValue = "waveform"

\* a render of the waveform has run, resetState('waveform') included
WaveformRendered ==
  /\ runCount' = runCount + 1
  /\ selectValue' = "waveform"

\* the selection has left the waveform: stopWaveformVisualization has run
WaveformLeft ==
  /\ previouslySelectedVisualizerName = "waveform"
  /\ selectValue' # selectValue
  /\ selectValue' # "waveform"

\* C40: teardown disconnects every audio node of the earlier renders: after
\* the resetState('waveform') of a render only the nodes of that render are
\* connected, and after stopWaveformVisualization none is.
C40_TeardownDisconnectsEarlierNodes ==
  [][/\ WaveformRendered =>
          audioGraph' \subseteq {MasterGain(runCount'), Analyser(runCount')}
     /\ WaveformLeft => audioGraph' = {}]_vars


====
